---- MODULE Spec2Model ----
(***************************************************************************)
(* Model of the ca821x platform radio layer (src/platform/radio.c) and of  *)
(* the main-loop hooks of src/platform/platform.c.                         *)
(*                                                                         *)
(* Two threads take part: the main thread, which runs the stack, calls the *)
(* otPlatRadio* API and once per loop iteration calls PlatformRadioProcess; *)
(* and the worker thread of the co-processor transport, which runs the     *)
(* handle* callbacks.  Spec interleaves the two threads at their           *)
(* synchronisation points (mutex acquisitions and condition waits).        *)
(* SpecSeq runs every API call and every worker handler as one step, to    *)
(* explore long call sequences on the in-transit table and the radio state.*)
(***************************************************************************)
EXTENDS Integers, FiniteSets, Sequences, TLC

(* ---------------- program constants ---------------- *)
MAX_INTRANSITS == 7
aMaxPHYPacketSize == 127
MAC_BASEHEADERLENGTH == 3
Uint8Mod == 256
MAC_MODE_SHORT_ADDR == 2
MAC_MODE_LONG_ADDR == 3
IEEE802154_MAX_LENGTH == 127
IEEE802154_DSN_OFFSET == 2
BEACON_PAYLOAD_LENGTH == 32
\* frame control bits (ieee_802_15_4.h of the co-processor API): frame type
\* mask and data type, security enabled, ack request, PAN id compression
MAC_FC_FT_MASK == 7
MAC_FC_FT_DATA == 1
MAC_FC_FT_COMMAND == 3
MAC_FC_SEC_ENA == 8
MAC_FC_ACK_REQ == 32
MAC_FC_PAN_COMP == 64
\* uint16_t aScanDuration
MaxScanDuration == 65535

(* ---------------- bounds of the exploration ---------------- *)
\* otPlatRadioTransmit calls per behaviour of Spec
MaxTransmits == 3
\* otPlatRadioTransmit calls per behaviour of SpecSeq (8 overflow the table)
MaxSeqTransmits == 8
\* data transmits per behaviour of SpecSeq when rejected calls are not counted
MaxWrapTransmits == 3
\* otPlatRadioTransmit calls per behaviour of SpecConfirm
MaxConfirmTransmits == 2
\* otPlatRadioTransmit calls per behaviour of SpecReset
MaxResetTransmits == 2
\* otPlatRadioTransmit calls per behaviour of SpecCodec
MaxCodecTransmits == 2
\* otPlatRadioTransmit calls per behaviour of SpecLive
MaxLiveTransmits == 1

\* scan calls explored by SpecScan
MaxScans == 2
\* beacon notifications explored by SpecScan
MaxBeacons == 2
\* frame counters the co-processor counts up to
MaxFrameCounter == 2

Slots == 1..MAX_INTRANSITS
Channels == {11, 12}
RadioStates == {"Disabled", "Sleep", "Receive", "Transmit"}
FrameTypes == {"data", "command", "beacon"}
Statuses == {"MAC_SUCCESS", "MAC_CHANNEL_ACCESS_FAILURE", "MAC_NO_ACK",
             "MAC_TRANSACTION_OVERFLOW", "MAC_TRANSACTION_EXPIRED", "MAC_OTHER"}
\* confirm statuses delivered outside regime "calls"
ThreadStatuses == {"MAC_SUCCESS", "MAC_NO_ACK"}
PollResults == {"MAC_SUCCESS", "MAC_NO_DATA", "MAC_OTHER"}

\* MCPS-DATA indications the co-processor may deliver: addressing modes,
\* whether source and destination PAN ids are equal, security spec, MSDU length
Indication(sm, dm, same, lvl, kim, len) ==
    [SrcMode |-> sm, DstMode |-> dm, SamePan |-> same,
     SecurityLevel |-> lvl, KeyIdMode |-> kim, MsduLength |-> len]
Indications ==
    { Indication(2, 2, TRUE, 0, 0, 2),      \* short, PAN compressed, unsecured
      Indication(3, 3, FALSE, 7, 3, 72),    \* longest header and footer, 127 bytes
      Indication(3, 3, FALSE, 7, 3, 73) }   \* one byte too long

VARIABLES
    sState,              \* PhyState sState
    sChannel,            \* cached selected channel
    phyCurrentChannel,   \* channel attribute held by the co-processor (0: reset value)
    sTransmitError,      \* ThreadError sTransmitError
    handle,              \* static uint8_t handle of otPlatRadioTransmit
    IntransitHandles,    \* uint8_t IntransitHandles[MAX_INTRANSITS]
    IntransitPackets,    \* mTransmitContext of IntransitPackets[MAX_INTRANSITS]
    intransit_mutex,     \* owner of intransit_mutex
    mbarrier_waiting,    \* enum barrier_waiting
    barrier_mutex,       \* owner of barrier_mutex
    mLength,             \* sReceiveFrame.mLength
    receiveFrame_mutex,  \* owner of receiveFrame_mutex
    selfpipe,            \* a byte is pending in the self-pipe
    ifUp,                \* otIsInterfaceUp(OT_INSTANCE)
    mainPc,              \* position of the main thread
    workerPc,            \* position of the worker thread
    evt,                 \* parameter set of the callback the worker is running
    requests,            \* MCPS-DATA requests the co-processor has not confirmed yet
    nTx,                 \* otPlatRadioTransmit calls counted so far
    regime,              \* what is explored: "threads", "calls" or "wrap" (set by Init)
    lastCall,            \* outcome of the last API call (observation)
    lastCb,              \* last stack callback invoked (observation)
    passages,            \* worker callbacks let through by the current PlatformRadioProcess
    sActiveScanInProgress,  \* uint8_t sActiveScanInProgress
    sEnergyScanInProgress,  \* uint8_t sEnergyScanInProgress
    sEnergyScanMask,        \* uint32_t sEnergyScanMask, as the set of its set bits
    sActiveScanCallback,    \* otHandleActiveScanResult sActiveScanCallback
    sActiveScanContext,     \* void *sActiveScanContext (0: never set)
    sEnergyScanCallback,    \* otHandleEnergyScanResult sEnergyScanCallback
    sEnergyScanContext,     \* void *sEnergyScanContext (0: never set)
    scanRunning,            \* the scan the co-processor has not confirmed yet
    scanLog,                \* events and callbacks since the last scan request (observation)
    nScans,                 \* scan calls counted so far
    sIsCoordinator,         \* uint8_t sIsCoordinator
    sCurDeviceTableSize,    \* uint8_t sCurDeviceTableSize
    keySequenceCounter,     \* the stack's thrKeySequenceCounter (otGetKeySequenceCounter)
    macDeviceTable,         \* co-processor: device descriptors of slots 0..entries-1
    macRequests,            \* requests the last state-change event sent (observation)
    stackEvt,               \* flags and stack state of the last state-change event (observation)
    lastCoord,              \* the last of MLME-START / MLME-RESET(0) sent (observation)
    evtTick,                \* flips at every state-change event (observation)
    sDeviceCache,           \* the device cache: slot -> entry
    lastQuery,              \* the last otPlatRadioIsDeviceActive call (observation)
    prevPoll,               \* per address: the frame counter read at its previous
                            \* query, -1 if none since the address was last seen
                            \* absent from the device table (observation)
    sReceivePsdu,           \* uint8_t sReceivePsdu[IEEE802154_MAX_LENGTH]
    lastTx,                 \* the last frame encoded and its MCPS-DATA request (observation)
    lastRx,                 \* the last indication decoded and its outcome (observation)
    macPib,                 \* co-processor: the attributes the set calls write
    mBeaconPayload,         \* network name and extended PAN id of mBeaconPayload
    lastSet,                \* the last set call and its return value (observation)
    aScanDuration,          \* the aScanDuration argument under study (set by Init)
    ScanDuration,           \* the ScanDuration computed from it last (observation)
    channelArg              \* main thread: the argument of the setChannel call in
                            \* progress (meaningful while mainPc = "set_channel")

radioVars == <<sState, sChannel, phyCurrentChannel, sTransmitError>>
tableVars == <<handle, IntransitHandles, IntransitPackets, intransit_mutex>>
barrierVars == <<mbarrier_waiting, barrier_mutex, selfpipe, passages>>
slotVars == <<mLength, receiveFrame_mutex>>
threadVars == <<mainPc, workerPc, evt>>
envVars == <<ifUp, requests, nTx, regime>>
obsVars == <<lastCall, lastCb>>
scanVars == <<sActiveScanInProgress, sEnergyScanInProgress, sEnergyScanMask,
              sActiveScanCallback, sActiveScanContext, sEnergyScanCallback,
              sEnergyScanContext, scanRunning, scanLog, nScans>>
\* the state of the parts of radio.c that the data path does not touch
syncVars == <<sIsCoordinator, sCurDeviceTableSize, keySequenceCounter, macDeviceTable,
              macRequests, stackEvt, lastCoord, evtTick>>
cacheVars == <<sDeviceCache, lastQuery, prevPoll>>
codecVars == <<sReceivePsdu, lastTx, lastRx>>
pibVars == <<macPib, mBeaconPayload, lastSet>>
durVars == <<aScanDuration, ScanDuration>>
moreVars == <<codecVars, pibVars, durVars, channelArg>>
extVars == <<scanVars, syncVars, cacheVars, moreVars>>
vars == <<radioVars, tableVars, barrierVars, slotVars, threadVars, envVars, obsVars,
          extVars>>

NoInd == Indication(0, 0, FALSE, 0, 0, 0)
\* parameter set of a worker callback: an MCPS-DATA confirm (handle, status; ctx
\* is the context of the submission the co-processor confirms) or indication
Evt(type, h, status, ctx, ind) ==
    [type |-> type, handle |-> h, status |-> status, ctx |-> ctx, ind |-> ind]
NoEvt == Evt("none", 0, "none", 0, NoInd)
\* record of an API call: operation, radio state before and after, return
\* value, frame type and outcome of intransit_putFrame (transmit only)
Call(op, from, to, ret, type, put) ==
    [op |-> op, from |-> from, to |-> to, ret |-> ret, type |-> type, put |-> put]
NoCall == Call("none", "none", "none", "none", "none", "none")

\* record of a stack callback: transmit-done (context passed, context of the
\* submission, ack-received, error) or receive-done (length of the frame), and
\* the thread that invoked it
Cb(cb, got, expected, ack, err, len, by) ==
    [cb |-> cb, got |-> got, expected |-> expected, ack |-> ack, err |-> err,
     len |-> len, by |-> by]
NoCb == Cb("none", 0, 0, FALSE, "none", 0, "none")
TxDone(got, expected, ack, err, by) == Cb("tx", got, expected, ack, err, 0, by)
RxDone(len) == Cb("rx", 0, 0, FALSE, "None", len, "worker")

\* aScanChannels of a scan call, as the set of the bits that are set
ScanMasks == {{}, {11, 12}, {12, 13}}
\* aScanChannels == 0 stands for channels 11 to 26 (0x07fff800)
AllChannelsMask == 11..26
\* ResultList of an MLME-SCAN confirm (energy scan: one RSSI per channel)
ResultLists == <<<< >>, <<40>>, <<40, 50>>>>
\* the fields of a beacon notification that handleBeaconNotify looks at:
\* coordinator address mode, security level, SDU length, protocol id, version
Beacon(am, lvl, sdu, proto, ver) ==
    [am |-> am, lvl |-> lvl, sdu |-> sdu, proto |-> proto, ver |-> ver]
Beacons == {Beacon(3, 0, 26, 3, 1), Beacon(2, 0, 26, 3, 1), Beacon(3, 0, 26, 2, 1)}
\* the scan the co-processor is running: kind, channel mask requested, caller context
Scan(kind, mask, ctx) == [kind |-> kind, mask |-> mask, ctx |-> ctx]
NoScan == Scan("none", {}, 0)
\* entry of scanLog, which starts again at every "accept": "accept" (a scan
\* request was sent and the call will return no error), "confirm" (its MLME-SCAN confirm reached the handler; id
\* is 1 when the interface was up),
\* "beacon" (a beacon notification reached the handler), "result" and "null"
\* (a scan callback fn was invoked with context ctx and a result or NULL)
LogEv(ev, kind, id, ctx, fn) == [ev |-> ev, kind |-> kind, id |-> id, ctx |-> ctx, fn |-> fn]
\* a uint32_t as its two 16-bit halves
Uint16Mod == 65536
U32(hi, lo) == [hi |-> hi, lo |-> lo]
ZeroU32 == U32(0, 0)
\* x + i modulo 2^32, for 0 <= i < 2^16
U32Add(x, i) ==
    U32((x.hi + ((x.lo + i) \div Uint16Mod)) % Uint16Mod, (x.lo + i) % Uint16Mod)
\* x - 1 modulo 2^32
U32Dec(x) ==
    IF x.lo > 0 THEN U32(x.hi, x.lo - 1)
    ELSE U32((x.hi + Uint16Mod - 1) % Uint16Mod, Uint16Mod - 1)

\* extended addresses, as byte sequences (two bytes stand for the eight)
ZeroAddr == <<0, 0>>
ExtAddrs == {<<1, 2>>, <<2, 1>>, <<3, 3>>}
\* a child, a neighbour router or the parent as the stack reports it
Neighbour(ext, rloc16) == [mExtAddress |-> ext, mRloc16 |-> rloc16]
NoNeighbour == Neighbour(ZeroAddr, 0)
\* the size of the device cache.  The macro is defined outside this repository;
\* the specification gives the table the capacity of the co-processor's device table.
DEVICE_TABLE_SIZE == 10
\* struct DeviceCache: isActive 0 empty, 1 live, 2 seen in the current refresh
CacheEntry(isActive, addr, fc, tfc) ==
    [isActive |-> isActive, mExtAddr |-> addr, mFrameCounter |-> fc,
     mTimeoutFrameCounter |-> tfc]
\* memset(&sDeviceCache[i], 0, sizeof(sDeviceCache[i]))
EmptyCacheEntry == CacheEntry(0, ZeroAddr, 0, 0)
\* an otPlatRadioIsDeviceActive call: its address, its return value, the frame
\* counter the device table held for the address (-1: address not in the table)
\* and prevPoll of the address before the call
Query(addr, ret, fc, prev) == [addr |-> addr, ret |-> ret, fc |-> fc, prev |-> prev]
NoQuery == Query(ZeroAddr, 0, -1, -1)

\* struct SecSpec: SecurityLevel, KeyIdMode, KeySource (bytes), KeyIndex
SecSpec(lvl, kim, src, idx) ==
    [SecurityLevel |-> lvl, KeyIdMode |-> kim, KeySource |-> src, KeyIndex |-> idx]
\* struct SecSpec curSecSpec = {0}
NoSecSpec == SecSpec(0, 0, <<0, 0, 0, 0, 0, 0, 0, 0>>, 0)
\* a RadioPacket handed to otPlatRadioTransmit: mPsdu (the mLength bytes of
\* the PDU, FCS included), mLength, mDirectTransmission
Packet(psdu, direct) == [mPsdu |-> psdu, mLength |-> Len(psdu), mDirectTransmission |-> direct]
NoPacket == Packet(<< >>, TRUE)
\* the arguments of MCPS_DATA_request: SrcAddrMode, Dst.AddressMode,
\* GETLE16(Dst.PANId), Dst.Address, MsduLength, Msdu, TxOptions, the security spec
DataReq(sam, dam, pan, addr, len, msdu, opt, sec) ==
    [SrcAddrMode |-> sam, DstAddrMode |-> dam, DstPANId |-> pan, DstAddress |-> addr,
     MsduLength |-> len, Msdu |-> msdu, TxOptions |-> opt, Security |-> sec]
NoDataReq == DataReq(0, 0, 0, << >>, 0, << >>, 0, NoSecSpec)
\* struct FullAddr: AddressMode, PANId (2 bytes), Address (2 or 8 bytes)
FullAddr(mode, pan, addr) == [AddressMode |-> mode, PANId |-> pan, Address |-> addr]
\* struct MCPS_DATA_indication_pset: Src, Dst, Msdu (MsduLength bytes), DSN, the
\* security spec behind the Msdu
DataInd(src, dst, msdu, dsn, sec) ==
    [Src |-> src, Dst |-> dst, MsduLength |-> Len(msdu), Msdu |-> msdu, DSN |-> dsn,
     Security |-> sec]
NoDataInd == DataInd(FullAddr(0, <<0, 0>>, << >>), FullAddr(0, <<0, 0>>, << >>), << >>, 0,
                     NoSecSpec)
\* the fields of a MAC data frame as the stack lays them out in sTransmitFrame:
\* ack-request, sequence number, destination and source, security spec, frame
\* counter (4 bytes), MAC payload
Frame(ack, dsn, dst, src, sec, counter, payload) ==
    [ack |-> ack, dsn |-> dsn, dst |-> dst, src |-> src, sec |-> sec, counter |-> counter,
     payload |-> payload]
NoFrame == Frame(FALSE, 0, FullAddr(0, <<0, 0>>, << >>), FullAddr(0, <<0, 0>>, << >>),
                 NoSecSpec, <<0, 0, 0, 0>>, << >>)
\* the outcome of an encoding: the frame, the packet holding it and the
\* request made of it
Tx(fields, frame, req) == [fields |-> fields, frame |-> frame, req |-> req]
NoTx == Tx(NoFrame, NoPacket, NoDataReq)
\* the outcome of a decoding: the indication, sReceiveFrame.mLength, and
\* whether the frame went on to otPlatRadioReceiveDone
Rx(ind, len, delivered) == [ind |-> ind, mLength |-> len, delivered |-> delivered]
NoRx == Rx(NoDataInd, 0, FALSE)
\* the attributes written by the set calls
PibAttributes ==
    {"macPANId", "macShortAddress", "nsIEEEAddress", "macRxOnWhenIdle", "macBeaconPayload",
     "macBeaconPayloadLength"}
\* an MLME-SET based set call: its name, whether a request of it failed, and
\* the ThreadError returned
SetCall(op, failed, ret) == [op |-> op, failed |-> failed, ret |-> ret]
NoSetCall == SetCall("none", FALSE, "none")
\* the ScanDuration a scan call computes: the call and the exponent
Duration(kind, exp) == [kind |-> kind, exp |-> exp]
NoDuration == Duration("none", 0)
\* what the stack holds at a state-change event: the flags of the event, the
\* device role, the PAN id, the key sequence counter, the child table (indices
\* 0..4), the neighbour routers and the parent (NoNeighbour: unknown)
StackEvt(flags, role, pan, seq, children, routers, parent) ==
    [flags |-> flags, role |-> role, pan |-> pan, seq |-> seq, children |-> children,
     routers |-> routers, parent |-> parent]
NoStackEvt == StackEvt({}, "disabled", 0, ZeroU32, << >>, << >>, NoNeighbour)
\* a request to the co-processor: MLME-START (pan, num: channel, bo, so, pc),
\* MLME-RESET (num: setDefaultPIB) or MLME-SET of attribute attr at index
\* (device descriptor: pan, short, ext, fc; key descriptor: key: the sequence
\* number the key is derived from, num: LookupData[0], devs: KeyDeviceListEntries;
\* entry counts: num)
Req(prim, attr, index, pan, short, ext, fc, key, num, devs, bo, so, pc) ==
    [prim |-> prim, attr |-> attr, index |-> index, pan |-> pan, short |-> short,
     ext |-> ext, fc |-> fc, key |-> key, num |-> num, devs |-> devs, bo |-> bo,
     so |-> so, pc |-> pc]
StartReq(pan, channel) ==
    Req("MLME-START", "none", 0, pan, 0, ZeroAddr, 0, ZeroU32, channel, 0, 15, 15, 1)
ResetReq(setDefaultPIB) ==
    Req("MLME-RESET", "none", 0, 0, 0, ZeroAddr, 0, ZeroU32, setDefaultPIB, 0, 0, 0, 0)
DeviceReq(index, pan, short, ext) ==
    Req("MLME-SET", "macDeviceTable", index, pan, short, ext, 0, ZeroU32, 0, 0, 0, 0, 0)
KeyReq(index, key, lookup, devs) ==
    Req("MLME-SET", "macKeyTable", index, 0, 0, ZeroAddr, 0, key, lookup, devs, 0, 0, 0)
CountReq(attr, count) ==
    Req("MLME-SET", attr, 0, 0, 0, ZeroAddr, 0, ZeroU32, count, 0, 0, 0, 0)

\* the result callbacks the stack passes to the two scan calls
ActiveScanHandler == "HandleActiveScanResult"
EnergyScanHandler == "HandleEnergyScanResult"

(* ---------------- exploration regimes ---------------- *)
\* regime is set by Init and never changes.  It selects what a behaviour
\* explores and which observations are kept; it changes nothing in what a call
\* or a handler does.
\*   "threads"  the two threads interleaved (Spec)
\*   "calls"    every API call with every input, each call recorded (SpecSeq)
\*   "table"    data transmits up to and beyond the capacity of the table (SpecSeq)
\*   "wrap"     rejected calls and polls drive the handle counter round (SpecSeq)
\*   "scan"     scan calls, scan confirms and beacon notifications (SpecScan)
\*   "sync"     state-change events with every stack state explored (SpecSync)
\*   "cache"    activity queries between state-change events and frames
\*              counted by the co-processor (SpecCache)
\*   "duration" the scan duration exponent for every aScanDuration (SpecDuration)
\*   "confirm"  the two threads interleaved, every confirm status delivered
\*              (SpecConfirm)
\*   "reset"    data transmits and confirms between MAC resets (SpecReset)
\*   "codec"    frames encoded into requests and indications decoded into
\*              frames, byte by byte (SpecCodec)
\*   "pib"      the set calls with every outcome of their MLME-SET requests (SpecPib)
\*   "live"     the two threads under the scheduling of the main loop, for
\*              what eventually happens (SpecLive)
\*   "restore"  scans on one channel or another, setChannel taken in its two
\*              steps, against the worker's channel restore (SpecRestore)
Observe(call) ==
    IF \/ regime = "calls"
       \/ regime = "table" /\ call.op = "transmit"
       \/ regime = "scan" /\ call.op \in {"activescan", "energyscan"}
    THEN call ELSE NoCall
ObserveCb(cb) == IF regime \in {"threads", "calls", "confirm", "codec"} THEN cb ELSE NoCb
RegimeTypes == IF regime \in {"table", "reset"} THEN {"data"} ELSE FrameTypes
RegimeChannels == IF regime \in {"threads", "calls", "restore"} THEN Channels ELSE {11}
RegimeStatuses == IF regime \in {"calls", "confirm"} THEN Statuses ELSE ThreadStatuses
\* caller context of the n-th counted transmit: distinct per submission where
\* the callbacks are observed
RegimeContext(n) == IF regime \in {"table", "wrap"} THEN 1 ELSE n
RegimeCap ==
    IF regime = "table" THEN MaxSeqTransmits
    ELSE IF regime = "wrap" THEN MaxWrapTransmits
    ELSE IF regime = "confirm" THEN MaxConfirmTransmits
    ELSE IF regime = "reset" THEN MaxResetTransmits
    ELSE IF regime = "codec" THEN MaxCodecTransmits
    ELSE IF regime = "live" THEN MaxLiveTransmits
    ELSE MaxTransmits

(* ---------------- in-transit table ---------------- *)
\* intransit_isHandleInUse: some slot holds the handle (an empty slot holds 0)
intransit_isHandleInUse(handles, h) == \E i \in Slots : handles[i] = h

RECURSIVE SkipInUse(_, _)
SkipInUse(handles, h) ==
    IF intransit_isHandleInUse(handles, h)
    THEN SkipInUse(handles, (h + 1) % Uint8Mod)
    ELSE h

\* variant: the search for a free handle is left out
AllocHandle_nocheck(handles, h) == (h + 1) % Uint8Mod

\* handle++; while(intransit_isHandleInUse(handle)) handle++;
AllocHandle(handles, h) == SkipInUse(handles, (h + 1) % Uint8Mod)

\* first slot whose handle is 0, or 0 when i reaches MAX_INTRANSITS
intransit_putSlot(handles) ==
    IF \E i \in Slots : handles[i] = 0
    THEN CHOOSE i \in Slots : handles[i] = 0 /\ \A j \in 1..(i - 1) : handles[j] # 0
    ELSE 0

\* variant: the first live record is returned whatever its handle
intransit_getFrame_first(handles, h) ==
    IF \E i \in Slots : handles[i] # 0
    THEN CHOOSE i \in Slots : handles[i] # 0 /\ \A j \in 1..(i - 1) : handles[j] = 0
    ELSE 0

\* slot of the first record with the handle, or 0 for NULL
intransit_getFrame(handles, h) ==
    IF \E i \in Slots : handles[i] = h
    THEN CHOOSE i \in Slots : handles[i] = h /\ \A j \in 1..(i - 1) : handles[j] # h
    ELSE 0

\* every slot with the handle is zeroed
intransit_rmFrame(handles, h) ==
    [i \in Slots |-> IF handles[i] = h THEN 0 ELSE handles[i]]

\* assert(found == 0) of intransit_rmFrame fails when two slots hold the handle
intransit_rmAsserts(handles, h) ==
    \E i, j \in Slots : i # j /\ handles[i] = h /\ handles[j] = h

(* ---------------- frame lengths of the decoder ---------------- *)
AddrLen(mode, withPan) ==
    IF mode = MAC_MODE_SHORT_ADDR THEN (IF withPan THEN 4 ELSE 2)
    ELSE IF mode = MAC_MODE_LONG_ADDR THEN (IF withPan THEN 10 ELSE 8)
    ELSE 0

IndAddressFieldLength(ind) ==
    AddrLen(ind.DstMode, TRUE) + AddrLen(ind.SrcMode, ~ind.SamePan)

IndHeaderLength(ind) ==
    IF ind.SecurityLevel # 0
    THEN MAC_BASEHEADERLENGTH + IndAddressFieldLength(ind) + 5
         + (IF ind.KeyIdMode = 2 THEN 4 ELSE IF ind.KeyIdMode = 3 THEN 8 ELSE 0) + 1
    ELSE MAC_BASEHEADERLENGTH + IndAddressFieldLength(ind)

\* variant: no authentication tag, whatever the level
FooterLength_notag(level) == 2

\* footerLength = 2 << (level % 4); 2 becomes 0; plus 2 for the FCS
FooterLength(level) ==
    LET mic == 2 * (2 ^ (level % 4))
    IN (IF mic = 2 THEN 0 ELSE mic) + 2

\* sReceiveFrame.mLength is a uint8_t
IndLength(ind) ==
    (ind.MsduLength + FooterLength(ind.SecurityLevel) + IndHeaderLength(ind)) % Uint8Mod

(* ---------------- confirm status to ThreadError ---------------- *)
\* variant: an expired transaction reported as Abort
ConfirmError_expiredAborts(status) ==
    IF status = "MAC_SUCCESS" THEN "None"
    ELSE IF status = "MAC_CHANNEL_ACCESS_FAILURE" THEN "ChannelAccessFailure"
    ELSE IF status \in {"MAC_NO_ACK", "MAC_TRANSACTION_OVERFLOW"} THEN "NoAck"
    ELSE "Abort"

ConfirmError(status) ==
    IF status = "MAC_SUCCESS" THEN "None"
    ELSE IF status = "MAC_CHANNEL_ACCESS_FAILURE" THEN "ChannelAccessFailure"
    ELSE IF status \in {"MAC_NO_ACK", "MAC_TRANSACTION_OVERFLOW"} THEN "NoAck"
    ELSE IF status = "MAC_TRANSACTION_EXPIRED" THEN "NoAck"
    ELSE "Abort"

\* the state after PlatformRadioInit, before any call or event
InitState ==
    /\ sState = "Disabled"
    /\ sChannel = 0
    /\ phyCurrentChannel = 0
    /\ sTransmitError = "None"
    /\ handle = 0
    /\ IntransitHandles = [i \in Slots |-> 0]
    /\ IntransitPackets = [i \in Slots |-> 0]
    /\ intransit_mutex = "none"
    /\ mbarrier_waiting = "NOT_WAITING"
    /\ barrier_mutex = "none"
    /\ mLength = 0
    /\ receiveFrame_mutex = "none"
    /\ selfpipe = FALSE
    /\ ifUp = FALSE
    /\ mainPc = "stack"
    /\ workerPc = "idle"
    /\ evt = NoEvt
    /\ requests = {}
    /\ nTx = 0
    /\ lastCall = NoCall
    /\ lastCb = NoCb
    /\ passages = 0
    /\ sActiveScanInProgress = 0
    /\ sEnergyScanInProgress = 0
    /\ sEnergyScanMask = {}
    /\ sActiveScanCallback = "NULL"
    /\ sActiveScanContext = 0
    /\ sEnergyScanCallback = "NULL"
    /\ sEnergyScanContext = 0
    /\ scanRunning = NoScan
    /\ scanLog = <<>>
    /\ nScans = 0
    /\ sIsCoordinator = 0
    /\ sCurDeviceTableSize = 0
    /\ keySequenceCounter = ZeroU32
    /\ macDeviceTable = << >>
    /\ macRequests = << >>
    /\ stackEvt = NoStackEvt
    /\ lastCoord = "none"
    /\ evtTick = FALSE
    /\ sDeviceCache = [i \in 1..DEVICE_TABLE_SIZE |-> EmptyCacheEntry]
    /\ lastQuery = NoQuery
    /\ prevPoll = [a \in ExtAddrs |-> -1]
    /\ sReceivePsdu = [i \in 1..IEEE802154_MAX_LENGTH |-> 0]
    /\ lastTx = NoTx
    /\ lastRx = NoRx
    /\ macPib = [a \in PibAttributes |-> [set |-> FALSE, value |-> 0]]
    /\ mBeaconPayload = [name |-> "zero", xpanid |-> "zero"]
    /\ lastSet = NoSetCall
    /\ ScanDuration = NoDuration
    /\ channelArg = 0

\* no scan duration is under study
InitProgram == InitState /\ aScanDuration = 0

Init == InitProgram /\ regime = "threads"

(* ======================= main thread: platform API ======================= *)
\* the radio state otPlatRadioEnable leaves, or "Busy"
EnableResult(state) == IF state \in {"Sleep", "Disabled"} THEN "Sleep" ELSE "Busy"

\* otPlatRadioEnable (USE_LOWPOWER_MODES not defined)
otPlatRadioEnable ==
    /\ mainPc = "stack"
    /\ IF EnableResult(sState) # "Busy"
       THEN /\ sState' = EnableResult(sState)
            /\ lastCall' = Observe(Call("enable", sState, sState', "None", "none", "none"))
       ELSE /\ sState' = sState
            /\ lastCall' = Observe(Call("enable", sState, sState, "Busy", "none", "none"))
    /\ UNCHANGED <<sChannel, phyCurrentChannel, sTransmitError, tableVars, barrierVars,
                   slotVars, threadVars, envVars, lastCb>>
    /\ UNCHANGED extVars

\* the radio state otPlatRadioDisable leaves, or "Busy"
DisableResult(state) == IF state \in {"Disabled", "Sleep"} THEN "Disabled" ELSE "Busy"

\* otPlatRadioDisable (USE_LOWPOWER_MODES not defined)
otPlatRadioDisable ==
    /\ mainPc = "stack"
    /\ IF DisableResult(sState) # "Busy"
       THEN /\ sState' = DisableResult(sState)
            /\ lastCall' = Observe(Call("disable", sState, sState', "None", "none", "none"))
       ELSE /\ sState' = sState
            /\ lastCall' = Observe(Call("disable", sState, sState, "Busy", "none", "none"))
    /\ UNCHANGED <<sChannel, phyCurrentChannel, sTransmitError, tableVars, barrierVars,
                   slotVars, threadVars, envVars, lastCb>>
    /\ UNCHANGED extVars

\* setChannel: the co-processor attribute is written only when the cache differs
setChannel(channel) ==
    IF sChannel # channel
    THEN sChannel' = channel /\ phyCurrentChannel' = channel
    ELSE UNCHANGED <<sChannel, phyCurrentChannel>>

\* the radio state otPlatRadioReceive leaves, or "Busy"
ReceiveResult(state) == IF state # "Disabled" THEN "Receive" ELSE "Busy"

\* otPlatRadioReceive(aChannel)
otPlatRadioReceive ==
    /\ mainPc = "stack"
    /\ \E aChannel \in RegimeChannels :
         IF ReceiveResult(sState) # "Busy"
         THEN /\ sState' = ReceiveResult(sState)
              /\ setChannel(aChannel)
              /\ lastCall' = Observe(Call("receive", sState, sState', "None", "none", "none"))
         ELSE /\ UNCHANGED <<sState, sChannel, phyCurrentChannel>>
              /\ lastCall' = Observe(Call("receive", sState, sState, "Busy", "none", "none"))
    /\ UNCHANGED <<sTransmitError, tableVars, barrierVars, slotVars, threadVars,
                   envVars, lastCb>>
    /\ UNCHANGED extVars

\* the stack brings the interface up or down (otIsInterfaceUp changes); in
\* regimes "table" and "wrap" it is only brought up
InterfaceChange ==
    /\ mainPc = "stack"
    /\ regime \in {"table", "wrap"} => ~ifUp
    /\ ifUp' = ~ifUp
    /\ UNCHANGED <<radioVars, tableVars, barrierVars, slotVars, threadVars,
                   requests, nTx, regime, obsVars>>
    /\ UNCHANGED extVars

\* variant: the frame type is not looked at
TransmitResult_anyType(state, type) ==
    IF state = "Disabled" THEN "Busy" ELSE "None"

\* variant: transmit is accepted in the Receive state only
TransmitResult_onlyReceive(state, type) ==
    IF state # "Receive" THEN "Busy"
    ELSE IF type \notin {"data", "command"} THEN "Abort"
    ELSE "None"

\* whether otPlatRadioTransmit accepts the frame in the radio state: its return value
TransmitResult(state, type) ==
    IF state = "Disabled" THEN "Busy"
    ELSE IF type \notin {"data", "command"} THEN "Abort"
    ELSE "None"

\* otPlatRadioTransmit after the handle has been chosen: h is the handle, ctx the
\* caller context, type the frame type of sTransmitFrame (a command frame is a
\* data request), chan its channel, poll the result of MLME_POLL_request_sync
TransmitBody(h, ctx, type, chan, poll) ==
    LET ret == TransmitResult(sState, type)
        slot == intransit_putSlot(IntransitHandles)
    IN
    IF ret # "None"
    THEN /\ lastCall' = Observe(Call("transmit", sState, sState, ret, type, "none"))
         /\ UNCHANGED <<radioVars, IntransitHandles, IntransitPackets, intransit_mutex,
                        requests, lastCb>>
    ELSE /\ sState' = "Transmit"
         /\ sTransmitError' = "None"
         /\ setChannel(chan)
         /\ IF type = "data"
            THEN /\ IF slot # 0
                    THEN /\ IntransitHandles' = [IntransitHandles EXCEPT ![slot] = h]
                         /\ IntransitPackets' = [IntransitPackets EXCEPT ![slot] = ctx]
                         /\ UNCHANGED intransit_mutex
                    ELSE \* return -1 with intransit_mutex still locked
                         /\ UNCHANGED <<IntransitHandles, IntransitPackets>>
                         /\ intransit_mutex' = "main"
                 \* MCPS_DATA_request(..., handle, ...)
                 /\ requests' = requests \cup {[handle |-> h, ctx |-> ctx]}
                 /\ lastCall' = Observe(Call("transmit", sState, "Transmit", "None", type,
                                     IF slot # 0 THEN "ok" ELSE "full"))
                 /\ UNCHANGED lastCb
            ELSE /\ lastCb' = ObserveCb(TxDone(ctx, ctx, poll = "MAC_SUCCESS",
                                     IF poll \in {"MAC_SUCCESS", "MAC_NO_DATA"}
                                     THEN "None" ELSE "NoAck", "main"))
                 /\ lastCall' = Observe(Call("transmit", sState, "Transmit", "None", type, "none"))
                 /\ UNCHANGED <<IntransitHandles, IntransitPackets, intransit_mutex, requests>>

\* otPlatRadioTransmit, first part: handle++ and the search for a free handle.
\* A main thread that finds intransit_mutex locked (by its own earlier
\* intransit_putFrame) never returns from pthread_mutex_lock.
TransmitAlloc ==
    /\ mainPc = "stack"
    /\ nTx < RegimeCap
    /\ nTx' = nTx + 1
    /\ IF intransit_mutex = "none"
       THEN /\ handle' = AllocHandle(IntransitHandles, handle)
            /\ mainPc' = "tx_put"
       ELSE /\ mainPc' = "blocked"
            /\ UNCHANGED handle
    /\ UNCHANGED <<radioVars, IntransitHandles, IntransitPackets, intransit_mutex,
                   barrierVars, slotVars, workerPc, evt, ifUp, requests, regime, obsVars>>
    /\ UNCHANGED extVars

\* otPlatRadioTransmit, second part
TransmitRest ==
    /\ mainPc = "tx_put"
    /\ \E type \in FrameTypes, chan \in Channels, poll \in PollResults :
         /\ (type # "command" => poll = "MAC_SUCCESS")
         /\ TransmitBody(handle, RegimeContext(nTx), type, chan, poll)
    /\ mainPc' = "stack"
    /\ UNCHANGED <<handle, barrierVars, slotVars, workerPc, evt, ifUp, nTx, regime>>
    /\ UNCHANGED extVars

(* ======================= main thread: main loop ======================= *)
\* posixPlatformSleep: the main loop enters select()
MainSleep ==
    /\ mainPc = "stack"
    /\ mainPc' = "select"
    /\ UNCHANGED <<radioVars, tableVars, barrierVars, slotVars, workerPc, evt,
                   envVars, obsVars>>
    /\ UNCHANGED extVars

\* select() returns (self-pipe, UART or alarm timeout), selfpipe_pop()
MainWake ==
    /\ mainPc = "select"
    /\ selfpipe' = FALSE
    /\ mainPc' = "drivers"
    /\ UNCHANGED <<radioVars, tableVars, mbarrier_waiting, barrier_mutex, passages,
                   slotVars, workerPc, evt, envVars, obsVars>>
    /\ UNCHANGED extVars

\* variant: the main thread gives the green light and does not wait for DONE
barrier_main_letWorkerWork_nowait ==
    /\ mainPc = "drivers"
    /\ barrier_mutex = "none"
    /\ passages' = 0
    /\ IF mbarrier_waiting = "WAITING"
       THEN mbarrier_waiting' = "GREENLIGHT"
       ELSE mbarrier_waiting' = "NOT_WAITING"
    /\ mainPc' = "stack"
    /\ UNCHANGED <<radioVars, tableVars, barrier_mutex, selfpipe, slotVars, workerPc,
                   evt, envVars, obsVars>>
    /\ UNCHANGED extVars

\* barrier_main_letWorkerWork up to its condition wait (or to its end when no
\* worker is waiting)
barrier_main_letWorkerWork ==
    /\ mainPc = "drivers"
    /\ barrier_mutex = "none"
    /\ passages' = 0
    /\ IF mbarrier_waiting = "WAITING"
       THEN /\ mbarrier_waiting' = "GREENLIGHT"
            /\ mainPc' = "wait_done"
       ELSE /\ mbarrier_waiting' = "NOT_WAITING"
            /\ mainPc' = "stack"
    /\ UNCHANGED <<radioVars, tableVars, barrier_mutex, selfpipe, slotVars, workerPc,
                   evt, envVars, obsVars>>
    /\ UNCHANGED extVars

\* variant: a loop (while instead of if) serves every worker that is waiting
barrier_main_resume_loop ==
    /\ mainPc = "wait_done"
    /\ barrier_mutex = "none"
    /\ \/ /\ mbarrier_waiting = "DONE"
          /\ mbarrier_waiting' = "NOT_WAITING"
          /\ mainPc' = "wait_done"
       \/ /\ mbarrier_waiting = "WAITING"
          /\ mbarrier_waiting' = "GREENLIGHT"
          /\ mainPc' = "wait_done"
       \/ /\ mbarrier_waiting = "NOT_WAITING"
          /\ mbarrier_waiting' = "NOT_WAITING"
          /\ mainPc' = "stack"
    /\ UNCHANGED <<radioVars, tableVars, barrier_mutex, selfpipe, passages, slotVars,
                   workerPc, evt, envVars, obsVars>>
    /\ UNCHANGED extVars

\* barrier_main_letWorkerWork after the wait for DONE
barrier_main_resume ==
    /\ mainPc = "wait_done"
    /\ mbarrier_waiting = "DONE"
    /\ barrier_mutex = "none"
    /\ mbarrier_waiting' = "NOT_WAITING"
    /\ mainPc' = "stack"
    /\ UNCHANGED <<radioVars, tableVars, barrier_mutex, selfpipe, passages, slotVars,
                   workerPc, evt, envVars, obsVars>>
    /\ UNCHANGED extVars

(* ======================= worker thread ======================= *)
\* the co-processor delivers the MCPS-DATA confirm of an outstanding request;
\* handleDataConfirm returns at once when the interface is down
DataConfirmArrives ==
    /\ workerPc = "idle"
    /\ \E r \in requests, status \in RegimeStatuses :
         /\ requests' = requests \ {r}
         /\ IF ifUp
            THEN /\ evt' = Evt("conf", r.handle, status, r.ctx, NoInd)
                 /\ workerPc' = "bar_wait"
            ELSE UNCHANGED <<evt, workerPc>>
    /\ UNCHANGED <<radioVars, tableVars, barrierVars, slotVars, mainPc, ifUp, nTx,
                   regime, obsVars>>
    /\ UNCHANGED extVars

\* the co-processor delivers an MCPS-DATA indication; handleDataIndication
\* returns at once when the interface is down
DataIndicationArrives ==
    /\ workerPc = "idle"
    /\ \E ind \in Indications :
         IF ifUp
         THEN /\ evt' = Evt("ind", 0, "none", 0, ind)
              /\ workerPc' = "ind_lock"
         ELSE UNCHANGED <<evt, workerPc>>
    /\ UNCHANGED <<radioVars, tableVars, barrierVars, slotVars, mainPc, envVars, obsVars>>
    /\ UNCHANGED extVars

\* handleDataIndication from pthread_mutex_lock(&receiveFrame_mutex) to the
\* unlock, or to the return of the length check, which leaves the mutex locked
handleDataIndication_decode ==
    /\ workerPc = "ind_lock"
    /\ receiveFrame_mutex = "none"
    /\ mLength = 0
    /\ mLength' = IndLength(evt.ind)
    /\ IF mLength' > aMaxPHYPacketSize
       THEN /\ receiveFrame_mutex' = "worker"
            /\ workerPc' = "idle"
            /\ evt' = NoEvt
       ELSE /\ receiveFrame_mutex' = "none"
            /\ workerPc' = "bar_wait"
            /\ evt' = evt
    /\ UNCHANGED <<radioVars, tableVars, barrierVars, mainPc, envVars, obsVars>>
    /\ UNCHANGED extVars

\* barrier_worker_waitForMain up to its wait for GREENLIGHT
barrier_worker_waitForMain ==
    /\ workerPc = "bar_wait"
    /\ barrier_mutex = "none"
    /\ mbarrier_waiting = "NOT_WAITING"
    /\ selfpipe' = TRUE
    /\ mbarrier_waiting' = "WAITING"
    /\ workerPc' = "bar_green"
    /\ UNCHANGED <<radioVars, tableVars, barrier_mutex, passages, slotVars, mainPc, evt,
                   envVars, obsVars>>
    /\ UNCHANGED extVars

\* barrier_worker_waitForMain returns holding barrier_mutex
barrier_worker_greenlit ==
    /\ workerPc = "bar_green"
    /\ mbarrier_waiting = "GREENLIGHT"
    /\ barrier_mutex = "none"
    /\ barrier_mutex' = "worker"
    /\ passages' = passages + 1
    /\ workerPc' = "callback"
    /\ UNCHANGED <<radioVars, tableVars, mbarrier_waiting, selfpipe, slotVars, mainPc,
                   evt, envVars, obsVars>>
    /\ UNCHANGED extVars

\* variant: the worker hands the barrier back as idle instead of done
barrier_worker_endWork_idle ==
    /\ mbarrier_waiting' = "NOT_WAITING"
    /\ barrier_mutex' = "none"

\* barrier_worker_endWork
barrier_worker_endWork ==
    /\ mbarrier_waiting' = "DONE"
    /\ barrier_mutex' = "none"

\* handleDataIndication between the barrier calls: receive-done, then endWork
IndicationCallback ==
    /\ workerPc = "callback"
    /\ evt.type = "ind"
    /\ sState' = "Receive"
    /\ lastCb' = ObserveCb(RxDone(mLength))
    /\ barrier_worker_endWork
    /\ workerPc' = "signal"
    /\ UNCHANGED <<sChannel, phyCurrentChannel, sTransmitError, tableVars, selfpipe,
                   passages, slotVars, mainPc, evt, envVars, lastCall>>
    /\ UNCHANGED extVars

\* handleDataConfirm between the barrier calls: intransit_getFrame, the assert,
\* transmit-done, then endWork.  The assert aborts the process.
ConfirmCallback ==
    /\ workerPc = "callback"
    /\ evt.type = "conf"
    /\ intransit_mutex = "none"
    /\ LET sentFrame == intransit_getFrame(IntransitHandles, evt.handle)
       IN IF sentFrame = 0
          THEN /\ workerPc' = "aborted"
               /\ mainPc' = "aborted"
               /\ UNCHANGED <<radioVars, barrierVars, lastCb>>
          ELSE /\ lastCb' = ObserveCb(TxDone(IntransitPackets[sentFrame], evt.ctx, FALSE,
                                   IF evt.status = "MAC_SUCCESS" THEN sTransmitError
                                   ELSE ConfirmError(evt.status), "worker"))
               /\ sState' = "Receive"
               /\ sTransmitError' = "None"
               /\ barrier_worker_endWork
               /\ workerPc' = "rm"
               /\ UNCHANGED <<sChannel, phyCurrentChannel, selfpipe, passages, mainPc>>
    /\ UNCHANGED <<tableVars, slotVars, evt, envVars, lastCall>>
    /\ UNCHANGED extVars

\* handleDataConfirm: intransit_rmFrame, called after barrier_worker_endWork
ConfirmRemove ==
    /\ workerPc = "rm"
    /\ intransit_mutex = "none"
    /\ IF intransit_rmAsserts(IntransitHandles, evt.handle)
       THEN /\ workerPc' = "aborted"
            /\ mainPc' = "aborted"
            /\ UNCHANGED IntransitHandles
       ELSE /\ IntransitHandles' = intransit_rmFrame(IntransitHandles, evt.handle)
            /\ workerPc' = "signal"
            /\ UNCHANGED mainPc
    /\ UNCHANGED <<radioVars, handle, IntransitPackets, intransit_mutex, barrierVars,
                   slotVars, evt, envVars, obsVars>>
    /\ UNCHANGED extVars

\* PlatformRadioSignal at the end of both handlers, then the handler returns
PlatformRadioSignal ==
    /\ workerPc = "signal"
    /\ receiveFrame_mutex = "none"
    /\ mLength' = 0
    /\ workerPc' = "idle"
    /\ evt' = NoEvt
    /\ UNCHANGED <<radioVars, tableVars, barrierVars, receiveFrame_mutex, mainPc,
                   envVars, obsVars>>
    /\ UNCHANGED extVars

(* ======================= the two-thread specification ======================= *)
Next ==
    \/ otPlatRadioEnable
    \/ otPlatRadioDisable
    \/ otPlatRadioReceive
    \/ InterfaceChange
    \/ TransmitAlloc
    \/ TransmitRest
    \/ MainSleep
    \/ MainWake
    \/ barrier_main_letWorkerWork
    \/ barrier_main_resume
    \/ DataConfirmArrives
    \/ DataIndicationArrives
    \/ handleDataIndication_decode
    \/ barrier_worker_waitForMain
    \/ barrier_worker_greenlit
    \/ IndicationCallback
    \/ ConfirmCallback
    \/ ConfirmRemove
    \/ PlatformRadioSignal

Spec == Init /\ [][Next]_vars

\* the two threads with every confirm status
InitConfirm == InitProgram /\ regime = "confirm"
SpecConfirm == InitConfirm /\ [][Next]_vars

(* ---------------- the two threads under the main loop's scheduling ---------------- *)
\* SpecLive is the two-thread specification with the scheduling the program
\* has: the main loop keeps iterating (posixPlatformSleep, then
\* posixPlatformProcessDrivers), a platform call in progress returns, select()
\* returns when the self-pipe holds a byte (it may return for other reasons,
\* which nothing guarantees), and each thread takes its next step whenever
\* that step stays possible.  Nothing is assumed about the stack's calls or
\* about what the co-processor delivers.
InitLive == InitProgram /\ regime = "live"

NextLive ==
    \/ otPlatRadioEnable
    \/ InterfaceChange
    \/ TransmitAlloc
    \/ TransmitRest
    \/ MainSleep
    \/ MainWake
    \/ barrier_main_letWorkerWork
    \/ barrier_main_resume
    \/ DataConfirmArrives
    \/ DataIndicationArrives
    \/ handleDataIndication_decode
    \/ barrier_worker_waitForMain
    \/ barrier_worker_greenlit
    \/ IndicationCallback
    \/ ConfirmCallback
    \/ ConfirmRemove
    \/ PlatformRadioSignal

\* the main loop of platform.c and the pthread scheduler
LiveFairness ==
    /\ WF_vars(MainSleep)
    /\ WF_vars(selfpipe /\ MainWake)
    /\ WF_vars(TransmitRest)
    /\ WF_vars(barrier_main_letWorkerWork)
    /\ WF_vars(barrier_main_resume)
    /\ WF_vars(handleDataIndication_decode)
    /\ WF_vars(barrier_worker_waitForMain)
    /\ WF_vars(barrier_worker_greenlit)
    /\ WF_vars(IndicationCallback)
    /\ WF_vars(ConfirmCallback)
    /\ WF_vars(ConfirmRemove)
    /\ WF_vars(PlatformRadioSignal)

SpecLive == InitLive /\ [][NextLive]_vars /\ LiveFairness

(* ======================= the call-sequence specification ======================= *)
\* In SpecSeq every API call and every worker handler is one step.  In the
\* regimes "calls" and "table" every otPlatRadioTransmit call counts against
\* the cap; in regime "wrap" only the calls that store a record count, and
\* before the last of them any number of rejected calls and polls may drive the
\* 8-bit handle counter all the way round.
InitSeq == InitProgram /\ regime \in {"calls", "table", "wrap"}

\* otPlatRadioTransmit as one step
SeqTransmit ==
    /\ mainPc = "stack"
    /\ \E type \in RegimeTypes, chan \in RegimeChannels, poll \in PollResults :
         LET counted == regime # "wrap" \/ (TransmitResult(sState, type) = "None" /\ type = "data")
             cap == RegimeCap
             h == AllocHandle(IntransitHandles, handle)
             n == IF counted THEN nTx + 1 ELSE nTx
         IN /\ (type # "command" => poll = "MAC_SUCCESS")
            /\ IF counted THEN nTx < cap ELSE nTx = cap - 1
            /\ nTx' = n
            /\ IF intransit_mutex = "none"
               THEN /\ handle' = h
                    /\ TransmitBody(h, RegimeContext(n), type, chan, poll)
                    /\ mainPc' = "stack"
               ELSE /\ mainPc' = "blocked"
                    /\ UNCHANGED <<radioVars, tableVars, requests, obsVars>>
    /\ UNCHANGED <<barrierVars, slotVars, workerPc, evt, ifUp, regime>>
    /\ UNCHANGED extVars

\* handleDataConfirm as one step, run through the barrier by a main loop that
\* is between two API calls.  A handler that finds intransit_mutex locked by
\* the main thread stays in intransit_getFrame, holding the barrier.
SeqDataConfirm ==
    /\ workerPc = "idle"
    /\ mainPc = "stack"
    /\ \E r \in requests, status \in RegimeStatuses :
         LET sentFrame == intransit_getFrame(IntransitHandles, r.handle)
         IN
         /\ requests' = requests \ {r}
         /\ IF ~ifUp
            THEN UNCHANGED <<radioVars, tableVars, barrierVars, slotVars, threadVars, lastCb>>
            ELSE IF intransit_mutex # "none"
            THEN /\ evt' = Evt("conf", r.handle, status, r.ctx, NoInd)
                 /\ workerPc' = "callback"
                 /\ mainPc' = "wait_done"
                 /\ mbarrier_waiting' = "GREENLIGHT"
                 /\ barrier_mutex' = "worker"
                 /\ selfpipe' = TRUE
                 /\ passages' = 1
                 /\ UNCHANGED <<radioVars, tableVars, slotVars, lastCb>>
            ELSE IF sentFrame = 0 \/ intransit_rmAsserts(IntransitHandles, r.handle)
            THEN /\ workerPc' = "aborted"
                 /\ mainPc' = "aborted"
                 /\ UNCHANGED <<radioVars, tableVars, barrierVars, slotVars, evt, lastCb>>
            ELSE /\ receiveFrame_mutex = "none"
                 /\ lastCb' = ObserveCb(TxDone(IntransitPackets[sentFrame], r.ctx, FALSE,
                                     IF status = "MAC_SUCCESS" THEN sTransmitError
                                     ELSE ConfirmError(status), "worker"))
                 /\ sState' = "Receive"
                 /\ sTransmitError' = "None"
                 /\ IntransitHandles' = intransit_rmFrame(IntransitHandles, r.handle)
                 /\ mLength' = 0
                 /\ selfpipe' = TRUE
                 /\ passages' = 1
                 /\ UNCHANGED <<sChannel, phyCurrentChannel, handle, IntransitPackets,
                                intransit_mutex, mbarrier_waiting, barrier_mutex,
                                receiveFrame_mutex, threadVars>>
    /\ UNCHANGED <<ifUp, nTx, regime, lastCall>>
    /\ UNCHANGED extVars

NextSeq ==
    \/ otPlatRadioEnable
    \/ otPlatRadioDisable
    \/ otPlatRadioReceive
    \/ InterfaceChange
    \/ SeqTransmit
    \/ SeqDataConfirm

SpecSeq == InitSeq /\ [][NextSeq]_vars

(* ======================= scans ======================= *)
\* SpecScan interleaves the main thread (scan calls, receive calls, the main
\* loop) with the worker's handleScanConfirm and handleBeaconNotify.
InitScan == InitProgram /\ regime = "scan"

\* variant: only the active-scan flag is looked at
ScanBusy_activeOnly(active, energy) == active # 0

\* if(sActiveScanInProgress || sEnergyScanInProgress) return kThreadError_Busy;
ScanBusy(active, energy) == active # 0 \/ energy # 0

ScanInProgress == ScanBusy(sActiveScanInProgress, sEnergyScanInProgress)

\* otPlatRadioActiveScan up to the return of MLME_SCAN_request; sent tells
\* whether the request could be handed to the co-processor
otPlatRadioActiveScan ==
    /\ mainPc = "stack"
    /\ nScans < MaxScans
    /\ nScans' = nScans + 1
    /\ \E aScanChannels \in ScanMasks, sent \in BOOLEAN :
         LET aCallbackContext == nScans + 1
             channels == IF aScanChannels = {} THEN AllChannelsMask ELSE aScanChannels
         IN
         IF ScanInProgress
         THEN /\ lastCall' = Observe(Call("activescan", sState, sState, "Busy", "none", "none"))
              /\ UNCHANGED <<sActiveScanCallback, sActiveScanContext, scanRunning, scanLog,
                             mainPc>>
         ELSE /\ sActiveScanCallback' = ActiveScanHandler
              /\ sActiveScanContext' = aCallbackContext
              /\ IF sent
                 THEN /\ scanRunning' = Scan("active", channels, aCallbackContext)
                      /\ scanLog' = <<LogEv("accept", "active", 0, aCallbackContext,
                                           ActiveScanHandler)>>
                      /\ mainPc' = "ascan_flag"
                      /\ UNCHANGED lastCall
                 ELSE /\ lastCall' = Observe(Call("activescan", sState, sState, "Busy",
                                                  "none", "none"))
                      /\ UNCHANGED <<scanRunning, scanLog, mainPc>>
    /\ UNCHANGED <<radioVars, tableVars, barrierVars, slotVars, workerPc, evt, envVars, lastCb,
                   sActiveScanInProgress, sEnergyScanInProgress, sEnergyScanMask,
                   sEnergyScanCallback, sEnergyScanContext>>
    /\ UNCHANGED <<syncVars, cacheVars, moreVars>>

\* otPlatRadioEnergyScan up to the return of MLME_SCAN_request
otPlatRadioEnergyScan ==
    /\ mainPc = "stack"
    /\ nScans < MaxScans
    /\ nScans' = nScans + 1
    /\ \E aScanChannels \in ScanMasks, sent \in BOOLEAN :
         LET aCallbackContext == nScans + 1
             channels == IF aScanChannels = {} THEN AllChannelsMask ELSE aScanChannels
         IN
         IF ScanInProgress
         THEN /\ lastCall' = Observe(Call("energyscan", sState, sState, "Busy", "none", "none"))
              /\ UNCHANGED <<sEnergyScanMask, sEnergyScanCallback, sEnergyScanContext,
                             scanRunning, scanLog, mainPc>>
         ELSE /\ sEnergyScanMask' = aScanChannels
              /\ sEnergyScanCallback' = EnergyScanHandler
              /\ sEnergyScanContext' = aCallbackContext
              /\ IF sent
                 THEN /\ scanRunning' = Scan("energy", channels, aCallbackContext)
                      /\ scanLog' = <<LogEv("accept", "energy", 0, aCallbackContext,
                                           EnergyScanHandler)>>
                      /\ mainPc' = "escan_flag"
                      /\ UNCHANGED lastCall
                 ELSE /\ lastCall' = Observe(Call("energyscan", sState, sState, "Busy",
                                                  "none", "none"))
                      /\ UNCHANGED <<scanRunning, scanLog, mainPc>>
    /\ UNCHANGED <<radioVars, tableVars, barrierVars, slotVars, workerPc, evt, envVars, lastCb,
                   sActiveScanInProgress, sEnergyScanInProgress, sActiveScanCallback,
                   sActiveScanContext>>
    /\ UNCHANGED <<syncVars, cacheVars, moreVars>>

\* the end of both scan calls after a request that was sent: the in-progress
\* flag is set and kThreadError_None returned
otPlatRadioScan_return ==
    /\ mainPc \in {"ascan_flag", "escan_flag"}
    /\ IF mainPc = "ascan_flag"
       THEN /\ sActiveScanInProgress' = 1
            /\ lastCall' = Observe(Call("activescan", sState, sState, "None", "none", "none"))
            /\ UNCHANGED sEnergyScanInProgress
       ELSE /\ sEnergyScanInProgress' = 1
            /\ lastCall' = Observe(Call("energyscan", sState, sState, "None", "none", "none"))
            /\ UNCHANGED sActiveScanInProgress
    /\ mainPc' = "stack"
    /\ UNCHANGED <<radioVars, tableVars, barrierVars, slotVars, workerPc, evt, envVars, lastCb,
                   sEnergyScanMask, sActiveScanCallback, sActiveScanContext,
                   sEnergyScanCallback, sEnergyScanContext, scanRunning, scanLog, nScans>>
    /\ UNCHANGED <<syncVars, cacheVars, moreVars>>

\* the highest bit of a non-empty mask
HighestBit(mask) == CHOOSE b \in mask : \A c \in mask : c <= b

\* the co-processor ends its scan, which has left its channel attribute at the
\* last channel scanned, and the MLME-SCAN confirm reaches handleScanConfirm,
\* which looks at the interface and at the two flags (Status is never
\* MAC_SCAN_IN_PROGRESS for a scan that ran)
ScanConfirmArrives ==
    /\ workerPc = "idle"
    /\ scanRunning # NoScan
    /\ scanRunning' = NoScan
    /\ phyCurrentChannel' = HighestBit(scanRunning.mask)
    /\ scanLog' = Append(scanLog, LogEv("confirm", scanRunning.kind, IF ifUp THEN 1 ELSE 0,
                                        scanRunning.ctx, "none"))
    /\ \E list \in 1..Len(ResultLists) :
         /\ scanRunning.kind = "active" => list = 1
         /\ IF ~ifUp
            THEN UNCHANGED <<workerPc, evt>>
            ELSE IF sActiveScanInProgress # 0
            THEN /\ evt' = Evt("scan_active", list, "none", 0, NoInd)
                 /\ workerPc' = "bar_wait"
            ELSE IF sEnergyScanInProgress # 0
            THEN /\ evt' = Evt("scan_energy", list, "none", 0, NoInd)
                 /\ workerPc' = "bar_wait"
            ELSE UNCHANGED <<workerPc, evt>>
    /\ UNCHANGED <<sState, sChannel, sTransmitError, tableVars, barrierVars, slotVars, mainPc,
                   envVars, obsVars, sActiveScanInProgress, sEnergyScanInProgress,
                   sEnergyScanMask, sActiveScanCallback, sActiveScanContext,
                   sEnergyScanCallback, sEnergyScanContext, nScans>>
    /\ UNCHANGED <<syncVars, cacheVars, moreVars>>

\* handleScanConfirm, active scan, between the barrier calls
ActiveScanConfirmCallback ==
    /\ workerPc = "callback"
    /\ evt.type = "scan_active"
    /\ scanLog' = Append(scanLog, LogEv("null", "active", 0, sActiveScanContext,
                                        sActiveScanCallback))
    /\ sActiveScanInProgress' = 0
    /\ barrier_worker_endWork
    /\ workerPc' = "scan_set"
    /\ UNCHANGED <<radioVars, tableVars, selfpipe, passages, slotVars, mainPc, evt, envVars,
                   obsVars, sEnergyScanInProgress, sEnergyScanMask, sActiveScanCallback,
                   sActiveScanContext, sEnergyScanCallback, sEnergyScanContext,
                   scanRunning, nScans>>
    /\ UNCHANGED <<syncVars, cacheVars, moreVars>>

\* the lowest bit of a non-empty mask
LowestBit(mask) == CHOOSE b \in mask : \A c \in mask : b <= c

\* while(!(sEnergyScanMask & 1 << curMinChannel)) { result.mChannel =
\* curMinChannel++; sEnergyScanMask &= sEnergyScanMask - 1; }: the mask and the
\* channel the loop ends with, or hang when the mask has run empty (the
\* condition then stays true whatever the shift count).  curMinChannel stays
\* below 32 for the masks of ScanMasks.
RECURSIVE EnergyScanWhile(_, _)
EnergyScanWhile(mask, curMinChannel) ==
    IF curMinChannel \in mask
    THEN [hang |-> FALSE, mask |-> mask, cur |-> curMinChannel]
    ELSE IF mask = {}
    THEN [hang |-> TRUE, mask |-> mask, cur |-> curMinChannel]
    ELSE EnergyScanWhile(mask \ {LowestBit(mask)}, curMinChannel + 1)

\* the for loop over n results of handleScanConfirm: the results it reports
\* with the energy-scan callback (none: the loop body never calls it), the
\* mask it leaves, and whether it hangs
RECURSIVE EnergyScanFor(_, _, _)
EnergyScanFor(mask, curMinChannel, n) ==
    IF n = 0
    THEN [hang |-> FALSE, mask |-> mask, reported |-> << >>]
    ELSE LET w == EnergyScanWhile(mask, curMinChannel)
         IN IF w.hang
            THEN [hang |-> TRUE, mask |-> w.mask, reported |-> << >>]
            ELSE EnergyScanFor(w.mask, w.cur, n - 1)

\* handleScanConfirm, energy scan, between the barrier calls.  A handler whose
\* loop hangs keeps the barrier, and the main thread waits for DONE for ever.
EnergyScanConfirmCallback ==
    /\ workerPc = "callback"
    /\ evt.type = "scan_energy"
    /\ LET loop == EnergyScanFor(sEnergyScanMask, 11, Len(ResultLists[evt.handle]))
       IN /\ sEnergyScanMask' = loop.mask
          /\ IF loop.hang
             THEN /\ workerPc' = "hung"
                  /\ UNCHANGED <<scanLog, sEnergyScanInProgress, mbarrier_waiting,
                                 barrier_mutex>>
             ELSE \* sEnergyScanCallback(sActiveScanContext, NULL)
                  /\ scanLog' = Append(scanLog \o loop.reported,
                                       LogEv("null", "energy", 0, sActiveScanContext,
                                             sEnergyScanCallback))
                  /\ sEnergyScanInProgress' = 0
                  /\ barrier_worker_endWork
                  /\ workerPc' = "scan_set"
    /\ UNCHANGED <<radioVars, tableVars, selfpipe, passages, slotVars, mainPc, evt, envVars,
                   obsVars, sActiveScanInProgress, sActiveScanCallback, sActiveScanContext,
                   sEnergyScanCallback, sEnergyScanContext, scanRunning, nScans>>
    /\ UNCHANGED <<syncVars, cacheVars, moreVars>>

\* handleScanConfirm after barrier_worker_endWork: MLME_SET_request_sync(
\* phyCurrentChannel, 0, sizeof(sChannel), &sChannel, ...), then return
ScanConfirmRestoreChannel ==
    /\ workerPc = "scan_set"
    /\ phyCurrentChannel' = sChannel
    /\ workerPc' = "idle"
    /\ evt' = NoEvt
    /\ UNCHANGED <<sState, sChannel, sTransmitError, tableVars, barrierVars, slotVars, mainPc,
                   envVars, obsVars, extVars>>

\* whether handleBeaconNotify reports the beacon
BeaconIsValid(b) == b.am = 3 /\ b.lvl = 0 /\ b.sdu > 0 /\ b.proto = 3 /\ b.ver = 1

BeaconsSeen == Len(SelectSeq(scanLog, LAMBDA e : e.ev = "beacon"))

\* the co-processor delivers an MLME-BEACON-NOTIFY indication:
\* handleBeaconNotify up to barrier_worker_waitForMain
BeaconNotifyArrives ==
    /\ workerPc = "idle"
    /\ BeaconsSeen < MaxBeacons
    /\ \E b \in Beacons :
         IF ifUp /\ BeaconIsValid(b)
         THEN /\ scanLog' = Append(scanLog, LogEv("beacon", "active", BeaconsSeen + 1, 0,
                                                  "none"))
              /\ evt' = Evt("beacon", BeaconsSeen + 1, "none", 0, NoInd)
              /\ workerPc' = "bar_wait"
         ELSE UNCHANGED <<scanLog, evt, workerPc>>
    /\ UNCHANGED <<radioVars, tableVars, barrierVars, slotVars, mainPc, envVars, obsVars,
                   sActiveScanInProgress, sEnergyScanInProgress, sEnergyScanMask,
                   sActiveScanCallback, sActiveScanContext, sEnergyScanCallback,
                   sEnergyScanContext, scanRunning, nScans>>
    /\ UNCHANGED <<syncVars, cacheVars, moreVars>>

\* handleBeaconNotify between the barrier calls: sActiveScanCallback(
\* sActiveScanContext, &resultStruct).  A call through the pointer that was
\* never set ends the process.
BeaconCallback ==
    /\ workerPc = "callback"
    /\ evt.type = "beacon"
    /\ IF sActiveScanCallback = "NULL"
       THEN /\ workerPc' = "aborted"
            /\ mainPc' = "aborted"
            /\ UNCHANGED <<scanLog, mbarrier_waiting, barrier_mutex, evt>>
       ELSE /\ scanLog' = Append(scanLog, LogEv("result", "active", evt.handle,
                                                sActiveScanContext, sActiveScanCallback))
            /\ barrier_worker_endWork
            /\ workerPc' = "idle"
            /\ evt' = NoEvt
            /\ UNCHANGED mainPc
    /\ UNCHANGED <<radioVars, tableVars, selfpipe, passages, slotVars, envVars, obsVars,
                   sActiveScanInProgress, sEnergyScanInProgress, sEnergyScanMask,
                   sActiveScanCallback, sActiveScanContext, sEnergyScanCallback,
                   sEnergyScanContext, scanRunning, nScans>>
    /\ UNCHANGED <<syncVars, cacheVars, moreVars>>

NextScan ==
    \/ otPlatRadioEnable
    \/ otPlatRadioReceive
    \/ InterfaceChange
    \/ otPlatRadioActiveScan
    \/ otPlatRadioEnergyScan
    \/ otPlatRadioScan_return
    \/ MainSleep
    \/ MainWake
    \/ barrier_main_letWorkerWork
    \/ barrier_main_resume
    \/ ScanConfirmArrives
    \/ BeaconNotifyArrives
    \/ barrier_worker_waitForMain
    \/ barrier_worker_greenlit
    \/ ActiveScanConfirmCallback
    \/ EnergyScanConfirmCallback
    \/ ScanConfirmRestoreChannel
    \/ BeaconCallback

SpecScan == InitScan /\ [][NextScan]_vars

(* ---------------- the channel restore against setChannel ---------------- *)
\* SpecRestore is SpecScan without the beacons, with both channels, and with
\* otPlatRadioReceive taken in the two steps of its setChannel call: the worker
\* runs its channel restore after barrier_worker_endWork, when the main thread
\* is no longer held in the barrier.
InitRestore == InitProgram /\ regime = "restore"

\* otPlatRadioReceive up to the return of MLME_SET_request_sync in setChannel
\* (the whole call when the state is Disabled or the channel is the cached one)
otPlatRadioReceive_setChannel ==
    /\ mainPc = "stack"
    /\ \E aChannel \in RegimeChannels :
         IF ReceiveResult(sState) = "Busy"
         THEN UNCHANGED <<sState, phyCurrentChannel, channelArg, mainPc>>
         ELSE /\ sState' = ReceiveResult(sState)
              /\ IF sChannel # aChannel
                 THEN /\ phyCurrentChannel' = aChannel
                      /\ channelArg' = aChannel
                      /\ mainPc' = "set_channel"
                 ELSE UNCHANGED <<phyCurrentChannel, channelArg, mainPc>>
    /\ UNCHANGED <<sChannel, sTransmitError, tableVars, barrierVars, slotVars, workerPc, evt,
                   envVars, obsVars, scanVars, syncVars, cacheVars, codecVars, pibVars,
                   durVars>>

\* setChannel after the request: sChannel = channel (the argument), and otPlatRadioReceive
\* returns
setChannel_store ==
    /\ mainPc = "set_channel"
    /\ sChannel' = channelArg
    /\ mainPc' = "stack"
    /\ UNCHANGED <<sState, phyCurrentChannel, sTransmitError, tableVars, barrierVars,
                   slotVars, workerPc, evt, envVars, obsVars, extVars>>

NextRestore ==
    \/ otPlatRadioEnable
    \/ otPlatRadioReceive_setChannel
    \/ setChannel_store
    \/ InterfaceChange
    \/ otPlatRadioActiveScan
    \/ otPlatRadioEnergyScan
    \/ otPlatRadioScan_return
    \/ MainSleep
    \/ MainWake
    \/ barrier_main_letWorkerWork
    \/ barrier_main_resume
    \/ ScanConfirmArrives
    \/ barrier_worker_waitForMain
    \/ barrier_worker_greenlit
    \/ ActiveScanConfirmCallback
    \/ EnergyScanConfirmCallback
    \/ ScanConfirmRestoreChannel

SpecRestore == InitRestore /\ [][NextRestore]_vars

(* ======================= key and device table synchronizer ======================= *)
\* the flags on which keyChangeCallback rebuilds the tables
KeyChangeFlags ==
    {"OT_NET_KEY_SEQUENCE", "OT_THREAD_CHILD_ADDED", "OT_THREAD_CHILD_REMOVED",
     "OT_NET_ROLE", "OT_THREAD_LINK_ACCEPT"}

\* byte order reversed: for(j...) ExtAddress[j] = mExtAddress.m8[7-j]
FlipEndian(addr) == [j \in 1..Len(addr) |-> addr[Len(addr) + 1 - j]]

\* variant: the child entries are registered without the validity test
ValidChildren_all(children) == children

\* the children the first loop registers: those with a non-zero extended address
ValidChildren(children) == SelectSeq(children, LAMBDA c : c.mExtAddress # ZeroAddr)

\* otGetNeighborRouterInfo(instance, routers, &numRouters, maxRouters)
NeighborRouterInfo(routers, maxRouters) ==
    SubSeq(routers, 1, IF Len(routers) < maxRouters THEN Len(routers) ELSE maxRouters)

\* the devices keyChangeCallback registers, in the order of their slots
RegisteredDevices(role, children, routers, parent) ==
    IF role # "child"
    THEN LET kids == ValidChildren(children)
         IN kids \o NeighborRouterInfo(routers, 5 - Len(kids))
    ELSE IF parent # NoNeighbour THEN <<parent>> ELSE << >>

\* the MLME-SET requests that write the device descriptors: slot count++ each
DeviceTableWrites(devices, pan) ==
    [i \in 1..Len(devices) |->
        DeviceReq(i - 1, pan, devices[i].mRloc16, FlipEndian(devices[i].mExtAddress))]

\* variant: the three key generations are stored without the test for 0
KeyGenerations_all(tKeySeq) == [i \in 1..3 |-> U32Add(tKeySeq, i - 1)]

\* the key generations stored for tKeySeq: those of tKeySeq, tKeySeq + 1,
\* tKeySeq + 2 (uint32_t) that are not 0
KeyGenerations(tKeySeq) ==
    SelectSeq([i \in 1..3 |-> U32Add(tKeySeq, i - 1)], LAMBDA q : q # ZeroU32)

\* the MLME-SET requests that write the key table: slot storeCount++ each
KeyTableWrites(tKeySeq, count) ==
    LET gens == KeyGenerations(tKeySeq)
    IN [i \in 1..Len(gens) |-> KeyReq(i - 1, gens[i], (gens[i].lo % 128) + 1, count)]

\* the key sequence counter after the check for 0
FixedKeySequence(seq) == IF seq = ZeroU32 THEN U32(0, 2) ELSE seq

\* the requests of keyChangeCallback
keyChangeRequests(flags, role, pan, seq, children, routers, parent) ==
    IF flags \cap KeyChangeFlags = {}
    THEN << >>
    ELSE LET devices == RegisteredDevices(role, children, routers, parent)
             count == Len(devices)
             tKeySeq == U32Dec(FixedKeySequence(seq))
             keys == KeyTableWrites(tKeySeq, count)
         IN DeviceTableWrites(devices, pan)
            \o <<CountReq("macDeviceTableEntries", count)>>
            \o keys
            \o <<CountReq("macKeyTableEntries", Len(keys))>>

\* variant: the coordinator flag is not consulted before MLME-START
coordChangeRequest_always(flags, role, isCoordinator) ==
    IF "OT_NET_ROLE" \notin flags THEN "none"
    ELSE IF role \in {"router", "leader"} THEN "START"
    ELSE IF isCoordinator # 0 THEN "RESET" ELSE "none"

\* what coordChangeCallback sends: "START", "RESET" or "none"
coordChangeRequest(flags, role, isCoordinator) ==
    IF "OT_NET_ROLE" \notin flags THEN "none"
    ELSE IF role \in {"router", "leader"}
    THEN (IF isCoordinator = 0 THEN "START" ELSE "none")
    ELSE IF isCoordinator # 0 THEN "RESET" ELSE "none"

\* the stack states explored at a state-change event
SyncFlagSets ==
    IF regime = "sync"
    THEN {{"OT_NET_ROLE"}, {"OT_NET_KEY_SEQUENCE", "OT_THREAD_CHILD_ADDED"},
          {"OT_IP6_ADDRESS_ADDED"}}
    ELSE IF regime = "reset" THEN {{"OT_NET_ROLE"}}
    ELSE {{"OT_THREAD_CHILD_ADDED"}, {"OT_THREAD_CHILD_REMOVED"}}
SyncRoles ==
    IF regime = "sync" THEN {"detached", "child", "router", "leader"}
    ELSE IF regime = "reset" THEN {"child", "router"}
    ELSE {"router"}
SyncPanIds == {4660}
SyncKeySequences ==
    {ZeroU32, U32(0, 1), U32(0, 128), U32(0, Uint16Mod - 1), U32(1, 0),
     U32(Uint16Mod - 1, Uint16Mod - 1)}
A1 == Neighbour(<<1, 2>>, 1025)
A2 == Neighbour(<<2, 1>>, 1026)
A3 == Neighbour(<<3, 3>>, 1027)
A4 == Neighbour(<<4, 5>>, 1028)
A5 == Neighbour(<<5, 5>>, 1029)
R1 == Neighbour(<<6, 1>>, 2048)
R2 == Neighbour(<<7, 1>>, 3072)
NoChildren == <<NoNeighbour, NoNeighbour, NoNeighbour, NoNeighbour, NoNeighbour>>
TwoChildren == <<NoNeighbour, A1, NoNeighbour, A2, NoNeighbour>>
\* child table, neighbour routers, parent and key sequence counter of the stack
Scenario(children, routers, parent, seq) ==
    [children |-> children, routers |-> routers, parent |-> parent, seq |-> seq]
\* regime "sync": the neighbour sets with one counter, and the counters with
\* one neighbour set; the other regimes: children only
SyncScenarios ==
    IF regime = "sync"
    THEN {Scenario(c[1], c[2], NoNeighbour, U32(0, 5)) :
             c \in {<<NoChildren, << >>>>,
                    <<NoChildren, <<R1, R2>>>>,
                    <<<<A1, A2, NoNeighbour, A3, A4>>, <<R1>>>>,
                    <<<<A1, A2, A3, A4, NoNeighbour>>, <<R1, R2>>>>,
                    <<<<A1, A2, A3, A4, A5>>, <<R1>>>>}}
         \cup {Scenario(TwoChildren, <<R1>>, R2, q) : q \in SyncKeySequences \cup {U32(0, 5)}}
    ELSE {Scenario(NoChildren, << >>, NoNeighbour, U32(0, 5)),
          Scenario(<<A1, NoNeighbour, NoNeighbour, NoNeighbour, NoNeighbour>>, << >>,
                   NoNeighbour, U32(0, 5)),
          Scenario(TwoChildren, << >>, NoNeighbour, U32(0, 5))}

otHardMacStateChangeCallback ==
    /\ mainPc = "stack"
    /\ \E flags \in SyncFlagSets, role \in SyncRoles, pan \in SyncPanIds,
          sc \in SyncScenarios :
         LET seq == sc.seq
             children == sc.children
             routers == sc.routers
             parent == sc.parent
             keyReqs == keyChangeRequests(flags, role, pan, seq, children, routers, parent)
             devices == RegisteredDevices(role, children, routers, parent)
             coord == coordChangeRequest(flags, role, sIsCoordinator)
             rebuilt == flags \cap KeyChangeFlags # {}
         IN /\ stackEvt' = StackEvt(flags, role, pan, seq, children, routers, parent)
            /\ keySequenceCounter' = IF rebuilt THEN FixedKeySequence(seq) ELSE seq
            /\ IF rebuilt
               THEN /\ macDeviceTable' =
                         [i \in 1..Len(devices) |->
                             [ext |-> FlipEndian(devices[i].mExtAddress), fc |-> 0]]
                    /\ sCurDeviceTableSize' = Len(devices)
               ELSE UNCHANGED <<macDeviceTable, sCurDeviceTableSize>>
            /\ macRequests' =
                 keyReqs \o (IF coord = "START" THEN <<StartReq(pan, sChannel)>>
                             ELSE IF coord = "RESET" THEN <<ResetReq(0)>>
                             ELSE << >>)
            /\ sIsCoordinator' =
                 (IF coord = "START" THEN 1 ELSE IF coord = "RESET" THEN 0
                  ELSE sIsCoordinator)
            /\ lastCoord' = IF coord = "none" THEN lastCoord ELSE coord
    /\ evtTick' = ~evtTick
    /\ UNCHANGED <<radioVars, tableVars, barrierVars, slotVars, threadVars, envVars, obsVars,
                   scanVars, cacheVars, moreVars>>

InitSync == InitProgram /\ regime = "sync"

NextSync ==
    \/ otPlatRadioEnable
    \/ otPlatRadioReceive
    \/ otHardMacStateChangeCallback

SpecSync == InitSync /\ [][NextSync]_vars

(* ---------------- MAC resets ---------------- *)
\* PlatformRadioStop: MLME_RESET_request_sync(1) and nothing else
PlatformRadioStop ==
    /\ mainPc = "stack"
    /\ macRequests' = <<ResetReq(1)>>
    /\ UNCHANGED <<sIsCoordinator, sCurDeviceTableSize, keySequenceCounter, macDeviceTable,
                   stackEvt, lastCoord, evtTick>>
    /\ UNCHANGED <<radioVars, tableVars, barrierVars, slotVars, threadVars, envVars, obsVars,
                   scanVars, cacheVars, moreVars>>

InitReset == InitProgram /\ regime = "reset"

NextReset ==
    \/ otPlatRadioEnable
    \/ SeqTransmit
    \/ SeqDataConfirm
    \/ otHardMacStateChangeCallback
    \/ PlatformRadioStop

SpecReset == InitReset /\ [][NextReset]_vars

(* ---------------- device activity cache ---------------- *)

InitCache == InitProgram /\ regime = "cache"

\* the lowest element of a non-empty set of slots
FirstSlot(slots) == CHOOSE i \in slots : \A j \in slots : i <= j

\* variant: the timeout counter of a new entry is not cleared
NewCacheEntry_stale(addr) == CacheEntry(1, addr, 0, 1)

\* memset(toReturn, 0, sizeof(*toReturn)); isActive = 1; mExtAddr = addr
NewCacheEntry(addr) == CacheEntry(1, addr, 0, 0)

\* deviceCache_getCachedDevice: the cache after the call and the slot returned.
\* A cache with neither a match nor an empty slot makes it return
\* &sDeviceCache[0xFF] (slot 0 here); that needs DEVICE_TABLE_SIZE live
\* entries, and a cache of 10 holds at most the 5 devices of the previous
\* device table and the 5 of the current one.
deviceCache_getCachedDevice(cache, addr) ==
    LET match == {i \in 1..DEVICE_TABLE_SIZE :
                     cache[i].isActive # 0 /\ cache[i].mExtAddr = addr}
        empty == {i \in 1..DEVICE_TABLE_SIZE : cache[i].isActive = 0}
    IN IF match # {} THEN [cache |-> cache, slot |-> FirstSlot(match)]
       ELSE IF empty # {}
       THEN [cache |-> [cache EXCEPT ![FirstSlot(empty)] = NewCacheEntry(addr)],
             slot |-> FirstSlot(empty)]
       ELSE [cache |-> cache, slot |-> 0]

\* the first loop of deviceCache_cacheDevices over the descriptors read with
\* MLME_GET_request_sync(macDeviceTable, i, ...), i < sCurDeviceTableSize
RECURSIVE CacheDescriptors(_, _, _)
CacheDescriptors(cache, table, i) ==
    IF i > Len(table) THEN cache
    ELSE LET got == deviceCache_getCachedDevice(cache, table[i].ext)
             next == IF got.slot = 0 THEN got.cache
                     ELSE [got.cache EXCEPT ![got.slot].mFrameCounter = table[i].fc,
                                            ![got.slot].isActive = 2]
         IN CacheDescriptors(next, table, i + 1)

\* variant: the entries not seen in the device table are kept
deviceCache_cacheDevices_keep(cache, table) ==
    LET seen == CacheDescriptors(cache, table, 1)
    IN [i \in 1..DEVICE_TABLE_SIZE |->
          IF seen[i].isActive = 2 THEN [seen[i] EXCEPT !.isActive = 1]
          ELSE seen[i]]

\* deviceCache_cacheDevices: the refresh, then the loop that removes the
\* entries not seen and marks the others live
deviceCache_cacheDevices(cache, table) ==
    LET seen == CacheDescriptors(cache, table, 1)
    IN [i \in 1..DEVICE_TABLE_SIZE |->
          IF seen[i].isActive = 1 THEN EmptyCacheEntry
          ELSE IF seen[i].isActive = 2 THEN [seen[i] EXCEPT !.isActive = 1]
          ELSE seen[i]]

\* variant: the timeout counter is not updated when the device is active
DeviceMatch_nocapture(entry) ==
    IF entry.mFrameCounter = entry.mTimeoutFrameCounter
    THEN [ret |-> 0, entry |-> entry]
    ELSE [ret |-> 1, entry |-> entry]

\* "Device match found": the return value and the entry after the comparison
DeviceMatch(entry) ==
    IF entry.mFrameCounter = entry.mTimeoutFrameCounter
    THEN [ret |-> 0, entry |-> entry]
    ELSE [ret |-> 1, entry |-> [entry EXCEPT !.mTimeoutFrameCounter = entry.mFrameCounter]]

\* otPlatRadioIsDeviceActive as a function: the cache after the call and the
\* return value
IsDeviceActive(cache, table, addr) ==
    LET cached == deviceCache_cacheDevices(cache, table)
        macAddr == FlipEndian(addr)
        match == {i \in 1..DEVICE_TABLE_SIZE :
                     cached[i].isActive # 0 /\ cached[i].mExtAddr = macAddr}
    IN IF match = {} THEN [cache |-> cached, ret |-> 0]
       ELSE LET i == FirstSlot(match)
                m == DeviceMatch(cached[i])
            IN [cache |-> [cached EXCEPT ![i] = m.entry], ret |-> m.ret]

\* the frame counter the device table holds for the device whose address the
\* stack writes as addr, -1 if the table does not hold the device
TableFrameCounter(table, addr) ==
    LET at == {i \in 1..Len(table) : FlipEndian(table[i].ext) = addr}
    IN IF at = {} THEN -1 ELSE table[FirstSlot(at)].fc

\* the stack asks whether a device is active
otPlatRadioIsDeviceActive ==
    /\ mainPc = "stack"
    /\ \E addr \in ExtAddrs :
         LET table == SubSeq(macDeviceTable, 1, sCurDeviceTableSize)
             r == IsDeviceActive(sDeviceCache, table, addr)
         IN /\ sDeviceCache' = r.cache
            /\ lastQuery' = Query(addr, r.ret, TableFrameCounter(table, addr), prevPoll[addr])
            /\ prevPoll' =
                 [a \in ExtAddrs |->
                     IF TableFrameCounter(table, a) = -1 THEN -1
                     ELSE IF a = addr THEN TableFrameCounter(table, a)
                     ELSE prevPoll[a]]
    /\ UNCHANGED <<radioVars, tableVars, barrierVars, slotVars, threadVars, envVars, obsVars,
                   scanVars, syncVars, moreVars>>

\* the co-processor accepts a secured frame from a device of its device table
\* and stores the frame counter of the frame in the descriptor
DeviceFrameCounted ==
    /\ \E i \in 1..Len(macDeviceTable) :
         /\ macDeviceTable[i].fc < MaxFrameCounter
         /\ macDeviceTable' = [macDeviceTable EXCEPT ![i].fc = @ + 1]
    /\ UNCHANGED <<sIsCoordinator, sCurDeviceTableSize, keySequenceCounter, macRequests,
                   stackEvt, lastCoord, evtTick>>
    /\ UNCHANGED <<radioVars, tableVars, barrierVars, slotVars, threadVars, envVars, obsVars,
                   scanVars, cacheVars, moreVars>>

NextCache ==
    \/ otHardMacStateChangeCallback
    \/ DeviceFrameCounted
    \/ otPlatRadioIsDeviceActive

SpecCache == InitCache /\ [][NextCache]_vars


(* ======================= frame conversion ======================= *)
\* frameControl & mask # 0, for a mask of one bit
HasBit(value, mask) == (value \div mask) % 2 = 1
\* GETLE16(buffer + offset)
GETLE16(buffer, offset) == buffer[offset + 1] + 256 * buffer[offset + 2]
\* the count bytes at buffer + offset
Bytes(buffer, offset, count) == [i \in 1..count |-> buffer[offset + i]]
\* memcpy(buffer + offset, bytes, Len(bytes))
Write(buffer, offset, bytes) ==
    [i \in DOMAIN buffer |->
        IF i > offset /\ i <= offset + Len(bytes) THEN bytes[i - offset] ELSE buffer[i]]
\* MAC_FC_SAM(frameControl), MAC_FC_DAM(frameControl)
MAC_FC_SAM(frameControl) == (frameControl \div 16384) % 4
MAC_FC_DAM(frameControl) == (frameControl \div 1024) % 4
MAC_SC_SECURITYLEVEL(sc) == sc % 8
MAC_SC_KEYIDMODE(sc) == (sc \div 8) % 4
MAC_KEYIDMODE_SC(keyidmode) == (keyidmode % 4) * 8
\* the frame type otPlatRadioTransmit tests for
FrameTypeOf(psdu) ==
    LET ft == GETLE16(psdu, 0) % (MAC_FC_FT_MASK + 1)
    IN IF ft = MAC_FC_FT_DATA THEN "data"
       ELSE IF ft = MAC_FC_FT_COMMAND THEN "command"
       ELSE "beacon"
\* the length of the key source that goes with a key id mode
KeySourceLength(kim) == IF kim = 2 THEN 4 ELSE IF kim = 3 THEN 8 ELSE 0

(* ---------------- the frames of the stack ---------------- *)
\* authentication tag length of a security level (IEEE 802.15.4, table 95)
MicLength(level) == <<0, 4, 8, 16, 0, 4, 8, 16>>[level + 1]
\* whether the source PAN id is left out of the frame
PanCompressed(f) ==
    f.src.AddressMode # 0 /\ f.dst.AddressMode # 0 /\ f.src.PANId = f.dst.PANId
\* the frame control word of a data frame
FrameControlOf(f) ==
    MAC_FC_FT_DATA
    + (IF f.sec.SecurityLevel # 0 THEN MAC_FC_SEC_ENA ELSE 0)
    + (IF f.ack THEN MAC_FC_ACK_REQ ELSE 0)
    + (IF PanCompressed(f) THEN MAC_FC_PAN_COMP ELSE 0)
    + 1024 * f.dst.AddressMode
    + 16384 * f.src.AddressMode
\* the auxiliary security header: security control, frame counter, and a key
\* identifier of 0, 1, 5 or 9 bytes
AuxHeaderOf(f) ==
    IF f.sec.SecurityLevel = 0 THEN << >>
    ELSE <<f.sec.SecurityLevel + MAC_KEYIDMODE_SC(f.sec.KeyIdMode)>> \o f.counter
         \o SubSeq(f.sec.KeySource, 1, KeySourceLength(f.sec.KeyIdMode))
         \o (IF f.sec.KeyIdMode = 0 THEN << >> ELSE <<f.sec.KeyIndex>>)
\* the MAC header: frame control, sequence number, addressing fields,
\* auxiliary security header
HeaderOf(f) ==
    <<FrameControlOf(f) % 256, FrameControlOf(f) \div 256, f.dsn>>
    \o (IF f.dst.AddressMode # 0 THEN f.dst.PANId \o f.dst.Address ELSE << >>)
    \o (IF f.src.AddressMode # 0
        THEN (IF PanCompressed(f) THEN << >> ELSE f.src.PANId) \o f.src.Address
        ELSE << >>)
    \o AuxHeaderOf(f)
\* the PDU as a sniffer would see it, the space of MIC and FCS zeroed
Mpdu(f) ==
    HeaderOf(f) \o f.payload \o [i \in 1..(MicLength(f.sec.SecurityLevel) + 2) |-> 0]

ShortA == <<1, 4>>
ShortB == <<2, 4>>
ExtA == <<1, 2, 3, 4, 5, 6, 7, 8>>
ExtB == <<17, 18, 19, 20, 21, 22, 23, 24>>
PanA == <<239, 190>>
PanB == <<52, 18>>
KeySourceA == <<161, 162, 163, 164, 0, 0, 0, 0>>
KeySourceB == <<177, 178, 179, 180, 181, 182, 183, 184>>
LongPayload == [i \in 1..72 |-> i]
\* the data frames handed to otPlatRadioTransmit
TxFrames ==
    { \* short to short in one PAN, ack requested, unsecured
      Frame(TRUE, 21, FullAddr(2, PanA, ShortB), FullAddr(2, PanA, ShortA), NoSecSpec,
            <<0, 0, 0, 0>>, <<1, 2>>),
      \* frame control 0x8869, level 5, key id mode 1, key index 3, payload DE AD
      Frame(TRUE, 22, FullAddr(2, PanA, ShortB), FullAddr(2, PanA, ShortA),
            SecSpec(5, 1, NoSecSpec.KeySource, 3), <<1, 0, 0, 0>>, <<222, 173>>),
      \* 127 bytes: extended to extended across PANs, level 7, key id mode 3
      Frame(FALSE, 23, FullAddr(3, PanB, ExtB), FullAddr(3, PanA, ExtA),
            SecSpec(7, 3, KeySourceB, 9), <<2, 0, 0, 0>>, LongPayload),
      \* key id mode 0: no key identifier in the frame
      Frame(FALSE, 24, FullAddr(2, PanA, ShortB), FullAddr(2, PanA, ShortA),
            SecSpec(5, 0, NoSecSpec.KeySource, 0), <<3, 0, 0, 0>>, <<170, 187, 204>>),
      \* short to extended across PANs, key id mode 2, level 1
      Frame(FALSE, 25, FullAddr(3, PanB, ExtB), FullAddr(2, PanA, ShortA),
            SecSpec(1, 2, KeySourceA, 1), <<4, 0, 0, 0>>, <<5>>),
      \* no destination address: a frame for the PAN coordinator
      Frame(FALSE, 26, FullAddr(0, <<0, 0>>, << >>), FullAddr(2, PanA, ShortA), NoSecSpec,
            <<0, 0, 0, 0>>, <<6, 7>>) }
\* what curPacket.Dst holds where otPlatRadioTransmit does not write it
StaleDst == {FullAddr(0, <<0, 0>>, << >>), FullAddr(0, PanB, ShortB)}

(* ---------------- otPlatRadioTransmit: PDU to MCPS-DATA request ---------------- *)
\* addressFieldLength, a uint8_t
TxAddressFieldLength(frameControl) ==
    LET dam == MAC_FC_DAM(frameControl)
        sam == MAC_FC_SAM(frameControl)
        dst == IF dam = MAC_MODE_SHORT_ADDR THEN 4 ELSE IF dam = MAC_MODE_LONG_ADDR THEN 10 ELSE 0
        src == IF sam = MAC_MODE_SHORT_ADDR THEN 4 ELSE IF sam = MAC_MODE_LONG_ADDR THEN 10 ELSE 0
    IN (dst + src - (IF sam # 0 /\ HasBit(frameControl, MAC_FC_PAN_COMP) THEN 2 ELSE 0))
       % Uint8Mod

\* curSecSpec: {0} unless the frame has security enabled
TxSecSpec(psdu) ==
    LET frameControl == GETLE16(psdu, 0)
        ASHloc == MAC_BASEHEADERLENGTH + TxAddressFieldLength(frameControl)
        securityControl == psdu[ASHloc + 1]
        kim == MAC_SC_KEYIDMODE(securityControl)
        source == Bytes(psdu, ASHloc + 5, KeySourceLength(kim))
    IN IF HasBit(frameControl, MAC_FC_SEC_ENA)
       THEN SecSpec(MAC_SC_SECURITYLEVEL(securityControl), kim,
                    source \o SubSeq(NoSecSpec.KeySource, Len(source) + 1, 8),
                    psdu[ASHloc + 5 + KeySourceLength(kim) + 1])
       ELSE NoSecSpec

\* headerLength: behind the key index when security is enabled
TxHeaderLength(psdu) ==
    LET frameControl == GETLE16(psdu, 0)
        ASHloc == MAC_BASEHEADERLENGTH + TxAddressFieldLength(frameControl)
    IN IF HasBit(frameControl, MAC_FC_SEC_ENA)
       THEN ASHloc + 5 + KeySourceLength(MAC_SC_KEYIDMODE(psdu[ASHloc + 1])) + 1
       ELSE ASHloc

\* the MCPS-DATA request made of a data frame; stale is what curPacket.Dst
\* held before
Encode(pkt, stale) ==
    LET psdu == pkt.mPsdu
        frameControl == GETLE16(psdu, 0)
        dam == MAC_FC_DAM(frameControl)
        sec == TxSecSpec(psdu)
        headerLength == TxHeaderLength(psdu)
        MsduLength == (pkt.mLength - FooterLength(sec.SecurityLevel) - headerLength)
                      % Uint8Mod
    IN DataReq(MAC_FC_SAM(frameControl), dam,
               IF dam \in {MAC_MODE_SHORT_ADDR, MAC_MODE_LONG_ADDR}
               THEN GETLE16(psdu, 3) ELSE GETLE16(stale.PANId, 0),
               IF dam = MAC_MODE_SHORT_ADDR THEN Bytes(psdu, 5, 2)
               ELSE IF dam = MAC_MODE_LONG_ADDR THEN Bytes(psdu, 5, 8)
               ELSE stale.Address,
               MsduLength, Bytes(psdu, headerLength, MsduLength),
               (IF HasBit(frameControl, MAC_FC_ACK_REQ) THEN 1 ELSE 0)
               + (IF pkt.mDirectTransmission THEN 0 ELSE 4),
               sec)

\* otPlatRadioTransmit as one step, the frame given byte by byte
CodecTransmit ==
    /\ mainPc = "stack"
    /\ intransit_mutex = "none"
    /\ nTx < RegimeCap
    /\ \E f \in TxFrames, direct \in BOOLEAN, stale \in StaleDst :
         LET pkt == Packet(Mpdu(f), direct)
             h == AllocHandle(IntransitHandles, handle)
             type == FrameTypeOf(pkt.mPsdu)
         IN /\ handle' = h
            /\ nTx' = nTx + 1
            /\ TransmitBody(h, RegimeContext(nTx + 1), type, 11, "MAC_SUCCESS")
            /\ lastTx' = IF TransmitResult(sState, type) = "None" /\ type = "data"
                         THEN Tx(f, pkt, Encode(pkt, stale))
                         ELSE lastTx
    /\ UNCHANGED <<barrierVars, slotVars, threadVars, ifUp, regime, sReceivePsdu, lastRx,
                   scanVars, syncVars, cacheVars, pibVars, durVars, channelArg>>

(* ---------------- handleDataIndication: indication to PDU ---------------- *)
\* the bytes of an address: 2 for a short one, 8 for an extended one
AddressBytes(addr) ==
    IF addr.AddressMode = MAC_MODE_SHORT_ADDR THEN SubSeq(addr.Address, 1, 2)
    ELSE IF addr.AddressMode = MAC_MODE_LONG_ADDR THEN SubSeq(addr.Address, 1, 8)
    ELSE << >>

\* frameControl as handleDataIndication builds it
RxFrameControl(ind) ==
    (ind.Src.AddressMode % 4) * 16384
    + (ind.Dst.AddressMode % 4) * 1024
    + (IF ind.Security.SecurityLevel # 0 THEN MAC_FC_SEC_ENA ELSE 0)
    + MAC_FC_FT_DATA
    + (IF ind.Src.PANId = ind.Dst.PANId THEN MAC_FC_PAN_COMP ELSE 0)

\* variant: the source address is written where it would be with its PAN id
RxSourceOffset_uncompressed(ind) ==
    AddrLen(ind.Dst.AddressMode, TRUE) + 5

\* where the source address goes: behind its PAN id when the PAN ids differ
RxSourceOffset(ind) ==
    AddrLen(ind.Dst.AddressMode, TRUE) + (IF ind.Src.PANId # ind.Dst.PANId THEN 5 ELSE 3)

\* addressFieldLength
RxAddressFieldLength(ind) ==
    AddrLen(ind.Dst.AddressMode, TRUE)
    + AddrLen(ind.Src.AddressMode, ind.Src.PANId # ind.Dst.PANId)

\* headerLength
RxHeaderLength(ind) ==
    MAC_BASEHEADERLENGTH + RxAddressFieldLength(ind)
    + (IF ind.Security.SecurityLevel # 0
       THEN 5 + KeySourceLength(ind.Security.KeyIdMode) + 1 ELSE 0)

\* sReceiveFrame.mLength, a uint8_t
RxLength(ind) ==
    (ind.MsduLength + FooterLength(ind.Security.SecurityLevel) + RxHeaderLength(ind))
    % Uint8Mod

\* sReceivePsdu after handleDataIndication: the addressing fields, the frame
\* control word, the auxiliary security header without its frame counter and,
\* unless the frame is too long, the MSDU
Decode(buffer, ind) ==
    LET hasDst == ind.Dst.AddressMode \in {MAC_MODE_SHORT_ADDR, MAC_MODE_LONG_ADDR}
        hasSrc == ind.Src.AddressMode \in {MAC_MODE_SHORT_ADDR, MAC_MODE_LONG_ADDR}
        differ == ind.Src.PANId # ind.Dst.PANId
        b1 == IF hasDst
              THEN Write(Write(buffer, 5, AddressBytes(ind.Dst)), 3, ind.Dst.PANId)
              ELSE buffer
        b2 == IF hasSrc
              THEN (IF differ
                    THEN Write(Write(b1, RxSourceOffset(ind), AddressBytes(ind.Src)),
                               RxSourceOffset(ind) - 2, ind.Src.PANId)
                    ELSE Write(b1, RxSourceOffset(ind), AddressBytes(ind.Src)))
              ELSE b1
        frameControl == RxFrameControl(ind)
        b3 == Write(b2, 0, <<frameControl % 256, frameControl \div 256>>)
        ASHloc == MAC_BASEHEADERLENGTH + RxAddressFieldLength(ind)
        sec == ind.Security
        b4 == IF HasBit(frameControl, MAC_FC_SEC_ENA)
              THEN Write(Write(Write(b3, ASHloc,
                                     <<MAC_SC_SECURITYLEVEL(sec.SecurityLevel)
                                       + MAC_KEYIDMODE_SC(sec.KeyIdMode)>>),
                               ASHloc + 5,
                               SubSeq(sec.KeySource, 1, KeySourceLength(sec.KeyIdMode))),
                         ASHloc + 5 + KeySourceLength(sec.KeyIdMode), <<sec.KeyIndex>>)
              ELSE b3
    IN IF RxLength(ind) > aMaxPHYPacketSize
       THEN b4
       ELSE Write(b4, RxHeaderLength(ind), ind.Msdu)

\* the indications the co-processor delivers
CodecIndications ==
    { \* short to short in one PAN, unsecured
      DataInd(FullAddr(2, PanA, ShortB), FullAddr(2, PanA, ShortA), <<222, 173>>, 7,
              NoSecSpec),
      \* extended to extended across PANs, level 5, key id mode 1
      DataInd(FullAddr(3, PanB, ExtB), FullAddr(3, PanA, ExtA), <<8, 9, 10>>, 9,
              SecSpec(5, 1, NoSecSpec.KeySource, 3)),
      \* the longest frame: 127 bytes
      DataInd(FullAddr(3, PanB, ExtB), FullAddr(3, PanA, ExtA), LongPayload, 10,
              SecSpec(7, 3, KeySourceB, 9)),
      \* one byte too long
      DataInd(FullAddr(3, PanB, ExtB), FullAddr(3, PanA, ExtA), LongPayload \o <<73>>, 11,
              SecSpec(7, 3, KeySourceB, 9)),
      \* extended to short in one PAN, level 1, key id mode 2
      DataInd(FullAddr(3, PanA, ExtB), FullAddr(2, PanA, ShortA), <<12>>, 12,
              SecSpec(1, 2, KeySourceA, 1)),
      \* the reserved addressing mode as source mode
      DataInd(FullAddr(1, PanA, ShortB), FullAddr(2, PanA, ShortA), <<13, 14>>, 13,
              NoSecSpec) }

\* the indication a receiver gets for a request: the addresses and PAN ids of
\* the frame, the security spec and the MSDU of the request
CorrespondingInd(tx) ==
    DataInd(tx.fields.src,
            FullAddr(tx.req.DstAddrMode,
                     <<tx.req.DstPANId % 256, tx.req.DstPANId \div 256>>, tx.req.DstAddress),
            tx.req.Msdu, tx.fields.dsn, tx.req.Security)

\* handleDataIndication as one step, run through the barrier by a main loop
\* that is between two API calls and that takes the frame at once
CodecIndication ==
    /\ workerPc = "idle"
    /\ mainPc = "stack"
    /\ \E ind \in CodecIndications \cup
                  (IF lastTx # NoTx THEN {CorrespondingInd(lastTx)} ELSE {}) :
         IF ~ifUp
         THEN UNCHANGED <<sState, slotVars, selfpipe, passages, lastCb, sReceivePsdu, lastRx>>
         ELSE /\ receiveFrame_mutex = "none"
              /\ mLength = 0
              /\ sReceivePsdu' = Decode(sReceivePsdu, ind)
              /\ lastRx' = Rx(ind, RxLength(ind), RxLength(ind) <= aMaxPHYPacketSize)
              /\ IF RxLength(ind) > aMaxPHYPacketSize
                 THEN \* return 1 with receiveFrame_mutex still locked
                      /\ mLength' = RxLength(ind)
                      /\ receiveFrame_mutex' = "worker"
                      /\ UNCHANGED <<sState, selfpipe, passages, lastCb>>
                 ELSE /\ sState' = "Receive"
                      /\ lastCb' = ObserveCb(RxDone(RxLength(ind)))
                      /\ mLength' = 0
                      /\ selfpipe' = TRUE
                      /\ passages' = 1
                      /\ UNCHANGED receiveFrame_mutex
    /\ UNCHANGED <<sChannel, phyCurrentChannel, sTransmitError, tableVars, mbarrier_waiting,
                   barrier_mutex, threadVars, envVars, lastCall, lastTx, scanVars, syncVars,
                   cacheVars, pibVars, durVars, channelArg>>

InitCodec == InitProgram /\ regime = "codec"

NextCodec ==
    \/ otPlatRadioEnable
    \/ InterfaceChange
    \/ CodecTransmit
    \/ CodecIndication

SpecCodec == InitCodec /\ [][NextCodec]_vars

(* ======================= scan duration ======================= *)
\* bitwise or of two naturals
RECURSIVE BitOr(_, _)
BitOr(a, b) ==
    IF a = 0 THEN b
    ELSE IF b = 0 THEN a
    ELSE (IF a % 2 = 1 \/ b % 2 = 1 THEN 1 ELSE 0) + 2 * BitOr(a \div 2, b \div 2)

\* value |= value >> 1; ... >> 2; ... >> 4; ... >> 8; ... >> 16
Smear(value) ==
    LET v1 == BitOr(value, value \div 2)
        v2 == BitOr(v1, v1 \div 4)
        v4 == BitOr(v2, v2 \div 16)
        v8 == BitOr(v4, v4 \div 256)
    IN BitOr(v8, v8 \div 65536)

\* 0x07C4ACDD as its two 16-bit halves
DeBruijnHi == 1988
DeBruijnLo == 44253

\* (uint32_t)(value * 0x07C4ACDD) >> 27, for value < 2^15: bits 27..31 of the
\* product are bits 11..15 of its upper half
MulShift27(value) ==
    (((value * DeBruijnHi) + ((value * DeBruijnLo) \div Uint16Mod)) % Uint16Mod) \div 2048

\* variant: two entries of the table exchanged
tab32_exchanged ==
    << 0,  9,  1, 10, 13, 21,  2, 29,
      11, 14, 16, 18, 22, 25,  3, 30,
       8, 20, 12, 28, 15, 17, 24,  7,
      19, 27, 23,  6, 26,  5,  4, 31>>

\* const uint8_t tab32[32]
tab32 ==
    << 0,  9,  1, 10, 13, 21,  2, 29,
      11, 14, 16, 18, 22, 25,  3, 30,
       8, 12, 20, 28, 15, 17, 24,  7,
      19, 27, 23,  6, 26,  5,  4, 31>>

log2_32(value) == tab32[MulShift27(Smear(value)) + 1]

\* the ScanDuration of a scan call with aScanDuration = ms; default is the
\* value for ms < 50 (5 in otPlatRadioActiveScan, 6 in otPlatRadioEnergyScan)
ScanDurationOf(ms, default) ==
    IF ms >= 50
    THEN LET d == log2_32(ms \div 15) IN (IF d > 14 THEN 14 ELSE d)
    ELSE default

\* the ScanDuration computation of otPlatRadioActiveScan
ActiveScanDuration ==
    /\ ScanDuration' = Duration("active", ScanDurationOf(aScanDuration, 5))
    /\ UNCHANGED <<radioVars, tableVars, barrierVars, slotVars, threadVars, envVars, obsVars,
                   scanVars, syncVars, cacheVars, codecVars, pibVars, aScanDuration,
                   channelArg>>

\* the ScanDuration computation of otPlatRadioEnergyScan
EnergyScanDuration ==
    /\ ScanDuration' = Duration("energy", ScanDurationOf(aScanDuration, 6))
    /\ UNCHANGED <<radioVars, tableVars, barrierVars, slotVars, threadVars, envVars, obsVars,
                   scanVars, syncVars, cacheVars, codecVars, pibVars, aScanDuration,
                   channelArg>>

InitDuration == InitState /\ regime = "duration" /\ aScanDuration \in 0..MaxScanDuration

NextDuration ==
    \/ ActiveScanDuration
    \/ EnergyScanDuration

SpecDuration == InitDuration /\ [][NextDuration]_vars

(* ======================= set calls ======================= *)
\* the statuses MLME_SET_request_sync is given: MAC_SUCCESS (0) and another
SetStatuses == {"MAC_SUCCESS", "MAC_INVALID_PARAMETER"}
\* the values handed to the set calls
PanIds == {4660, 65535}
ShortAddresses == {1024, 65534}
NetworkNames == {"OpenThread", "Cascoda"}
ExtendedPanIds == {"dead00beef00cafe", "0123456789abcdef"}

\* MLME_SET_request_sync: the attribute is written when the request succeeds
MLME_SET_request_sync(pib, attribute, value, status) ==
    IF status = "MAC_SUCCESS"
    THEN [pib EXCEPT ![attribute] = [set |-> TRUE, value |-> value]]
    ELSE pib

\* the return of the two-request calls: both requests succeed
BeaconPayloadReturn(st1, st2) ==
    IF st1 = "MAC_SUCCESS" /\ st2 = "MAC_SUCCESS" THEN "None" ELSE "Failed"

\* the body shared by otPlatRadioSetNetworkName and
\* otPlatRadioSetExtendedPanId once mBeaconPayload is written: set
\* macBeaconPayload and, when that succeeded, macBeaconPayloadLength
SetBeaconPayload(op, payload, st1, st2) ==
    LET pib1 == MLME_SET_request_sync(macPib, "macBeaconPayload", payload, st1)
        second == st1 = "MAC_SUCCESS"
        pib2 == IF second
                THEN MLME_SET_request_sync(pib1, "macBeaconPayloadLength",
                                           BEACON_PAYLOAD_LENGTH, st2)
                ELSE pib1
        failed == st1 # "MAC_SUCCESS" \/ (second /\ st2 # "MAC_SUCCESS")
    IN /\ mBeaconPayload' = payload
       /\ macPib' = pib2
       /\ lastSet' = SetCall(op, failed,
                             BeaconPayloadReturn(st1, st2))
       /\ UNCHANGED <<radioVars, tableVars, barrierVars, slotVars, threadVars, envVars,
                      obsVars, scanVars, syncVars, cacheVars, codecVars, durVars,
                      channelArg>>

otPlatRadioSetNetworkName ==
    \E name \in NetworkNames, st1, st2 \in SetStatuses :
        SetBeaconPayload("otPlatRadioSetNetworkName", [mBeaconPayload EXCEPT !.name = name],
                         st1, st2)

otPlatRadioSetExtendedPanId ==
    \E xpanid \in ExtendedPanIds, st1, st2 \in SetStatuses :
        SetBeaconPayload("otPlatRadioSetExtendedPanId",
                         [mBeaconPayload EXCEPT !.xpanid = xpanid], st1, st2)

\* the body of the one-request calls that answer kThreadError_Failed
SetAttribute(op, attribute, value, status) ==
    /\ macPib' = MLME_SET_request_sync(macPib, attribute, value, status)
    /\ lastSet' = SetCall(op, status # "MAC_SUCCESS",
                          IF status = "MAC_SUCCESS" THEN "None" ELSE "Failed")
    /\ UNCHANGED <<radioVars, tableVars, barrierVars, slotVars, threadVars, envVars, obsVars,
                   scanVars, syncVars, cacheVars, codecVars, durVars, mBeaconPayload,
                   channelArg>>

otPlatRadioSetPanId ==
    \E panid \in PanIds, status \in SetStatuses :
        SetAttribute("otPlatRadioSetPanId", "macPANId", panid, status)

otPlatRadioSetExtendedAddress ==
    \E address \in ExtAddrs, status \in SetStatuses :
        SetAttribute("otPlatRadioSetExtendedAddress", "nsIEEEAddress", address, status)

otPlatRadioSetShortAddress ==
    \E address \in ShortAddresses, status \in SetStatuses :
        SetAttribute("otPlatRadioSetShortAddress", "macShortAddress", address, status)

\* error = ret ? kThreadError_Busy : kThreadError_None
otPlatRadioSetRxOnWhenIdle ==
    \E rxOnWhenIdle \in {0, 1, 255}, status \in SetStatuses :
        /\ macPib' = MLME_SET_request_sync(macPib, "macRxOnWhenIdle",
                                           IF rxOnWhenIdle # 0 THEN 1 ELSE 0, status)
        /\ lastSet' = SetCall("otPlatRadioSetRxOnWhenIdle", status # "MAC_SUCCESS",
                              IF status # "MAC_SUCCESS" THEN "Busy" ELSE "None")
        /\ UNCHANGED <<radioVars, tableVars, barrierVars, slotVars, threadVars, envVars,
                       obsVars, scanVars, syncVars, cacheVars, codecVars, durVars, channelArg,
                       mBeaconPayload>>

InitPib == InitProgram /\ regime = "pib"

NextPib ==
    \/ otPlatRadioSetNetworkName
    \/ otPlatRadioSetExtendedPanId
    \/ otPlatRadioSetPanId
    \/ otPlatRadioSetExtendedAddress
    \/ otPlatRadioSetShortAddress
    \/ otPlatRadioSetRxOnWhenIdle

SpecPib == InitPib /\ [][NextPib]_vars

(* ======================= properties ======================= *)
LiveSlots == {i \in Slots : IntransitHandles[i] # 0}
LiveHandles == {IntransitHandles[i] : i \in LiveSlots}
RequestHandles == {r.handle : r \in requests}

\* C1: while the worker is inside a stack callback (between the return of
\* barrier_worker_waitForMain and barrier_worker_endWork) it holds
\* barrier_mutex and the main thread is blocked in barrier_main_letWorkerWork,
\* waiting for DONE; so the two threads never run stack code at the same time.
C1_NoParallelStackCode ==
    workerPc = "callback" =>
        /\ mainPc = "wait_done"
        /\ barrier_mutex = "worker"
        /\ mbarrier_waiting = "GREENLIGHT"

\* the worker is inside receive-done's callback section
C1_Witness == workerPc = "callback" /\ evt.type = "ind"

\* C2 (as stated): once the transmit-done callback of a confirm has returned,
\* the record with the confirm's handle is no longer in the in-transit table.
C2_RemovedBeforeCallbackReturns ==
    (workerPc = "rm" /\ evt.type = "conf") =>
        ~intransit_isHandleInUse(IntransitHandles, evt.handle)

\* C3: every transmit-done callback invoked for a confirm carries the caller
\* context of the otPlatRadioTransmit call that was assigned the confirm's
\* handle, whatever the order in which the confirms arrive.
C3_NoCrossOver ==
    (lastCb.cb = "tx" /\ lastCb.by = "worker") => lastCb.got = lastCb.expected

\* the second submission is confirmed while the first is still outstanding
C3_Witness ==
    /\ lastCb.cb = "tx"
    /\ lastCb.by = "worker"
    /\ lastCb.got = 2
    /\ \E r \in requests : r.ctx = 1 /\ intransit_isHandleInUse(IntransitHandles, r.handle)

\* C4: the in-transit table never holds more than MAX_INTRANSITS live records,
\* no two live records share a handle, no live record has a handle that is not
\* an outstanding request's, and a transmit never stores its record under a
\* handle that is live at the time.
C4_AtMostSevenUniqueHandles ==
    /\ Cardinality(LiveSlots) <= MAX_INTRANSITS
    /\ \A i, j \in LiveSlots : i # j => IntransitHandles[i] # IntransitHandles[j]
    /\ Cardinality(requests) = Cardinality(RequestHandles)

\* after the handle counter has gone round, the last transmit was given a
\* handle below the handle of a record that is still live
C4_Witness ==
    /\ regime = "wrap"
    /\ nTx = MaxWrapTransmits
    /\ \E i \in LiveSlots : IntransitHandles[i] > handle
    /\ handle \in LiveHandles

\* C5 (as stated): a data transmit that finds the table full reports an error
\* to its caller.
C5_OverflowReported ==
    (lastCall.op = "transmit" /\ lastCall.put = "full") => lastCall.ret # "None"

\* C6 (as stated): when no confirm is being handled, every live record belongs
\* to a request whose confirm has not been delivered yet.
C6_NoRecordAfterConfirm ==
    workerPc = "idle" => LiveHandles \subseteq RequestHandles

\* C7: one call of PlatformRadioProcess lets at most one worker callback
\* through; a callback runs only inside such a call, and a worker event that
\* starts waiting afterwards runs in a later call.
C7_OnePassagePerProcess ==
    /\ passages <= 1
    /\ workerPc = "callback" => (passages = 1 /\ mainPc = "wait_done")
    /\ (mainPc = "wait_done" /\ mbarrier_waiting = "DONE") => passages = 1

\* a second worker event is waiting after the call that served the first has
\* returned
C7_Witness ==
    /\ passages = 1
    /\ mbarrier_waiting = "WAITING"
    /\ workerPc = "bar_green"
    /\ mainPc = "stack"

\* C8 (as stated): an indication received while the interface is up is never
\* left waiting for ever at the receive slot: the slot it waits for is not held
\* by the waiting thread itself.
C8_IndicationNotBlockedForEver ==
    workerPc = "ind_lock" => receiveFrame_mutex # "worker"

\* C9 (as stated): whenever no handler is running (in particular after a
\* malformed indication has been dropped) the receive slot is empty and
\* receiveFrame_mutex is released.
C9_DropLeavesSlotClean ==
    workerPc = "idle" => (mLength = 0 /\ receiveFrame_mutex = "none")

\* the (operation, state) pairs the radio state machine lists
C10_Listed(op, from) ==
    \/ op = "enable" /\ from = "Disabled"
    \/ op = "disable" /\ from = "Sleep"
    \/ op = "receive" /\ from \in {"Sleep", "Receive"}
    \/ op = "transmit" /\ from = "Receive"

\* the (operation, state) pairs the code accepts
C10_Accepted(op, from) ==
    \/ op = "enable" /\ from \in {"Disabled", "Sleep"}
    \/ op = "disable" /\ from \in {"Disabled", "Sleep"}
    \/ op = "receive" /\ from # "Disabled"
    \/ op = "transmit" /\ from # "Disabled"

C10_Target(op) ==
    IF op = "enable" THEN "Sleep"
    ELSE IF op = "disable" THEN "Disabled"
    ELSE IF op = "receive" THEN "Receive"
    ELSE "Transmit"

\* a completed enable, disable, receive or transmit call (transmit of a data or
\* data-request command frame)
C10_Call ==
    /\ lastCall.op \in {"enable", "disable", "receive", "transmit"}
    /\ lastCall.op = "transmit" => lastCall.type \in {"data", "command"}

\* C10 (as stated): a call succeeds and performs its transition iff the pair is
\* listed; every other pair returns busy and leaves the state unchanged.
C10_OnlyListedTransitions ==
    C10_Call =>
        IF C10_Listed(lastCall.op, lastCall.from)
        THEN lastCall.ret = "None" /\ lastCall.to = C10_Target(lastCall.op)
        ELSE lastCall.ret = "Busy" /\ lastCall.to = lastCall.from

\* C10 (amended): enable and disable succeed from Disabled and from Sleep,
\* receive and transmit from every state but Disabled; the call then leaves the
\* radio in the operation's target state; every other pair returns busy and
\* leaves the state unchanged.
C10_AcceptedTransitions ==
    C10_Call =>
        IF C10_Accepted(lastCall.op, lastCall.from)
        THEN lastCall.ret = "None" /\ lastCall.to = C10_Target(lastCall.op)
        ELSE lastCall.ret = "Busy" /\ lastCall.to = lastCall.from

\* a second transmit is accepted while the radio is in the Transmit state
C10_Witness ==
    /\ lastCall.op = "transmit"
    /\ lastCall.from = "Transmit"
    /\ lastCall.ret = "None"
    /\ sState = "Transmit"

\* a step that is a completed otPlatRadioTransmit call
C11_TransmitReturns ==
    /\ nTx' = nTx + 1
    /\ mainPc = "stack"
    /\ mainPc' = "stack"
    /\ lastCall'.op = "transmit"

\* C11: an otPlatRadioTransmit call returns Busy on a Disabled radio, Abort on
\* a non-disabled radio for every frame type other than data and MAC command,
\* and no error otherwise; a call that returns Busy or Abort sends no request,
\* adds no in-transit record, invokes no callback and leaves the radio state,
\* the channel and the transmit error unchanged.
C11_RejectedTransmitHasNoEffect ==
    [][C11_TransmitReturns =>
        /\ lastCall'.from = sState
        /\ lastCall'.ret =
             (IF sState = "Disabled" THEN "Busy"
              ELSE IF lastCall'.type \notin {"data", "command"} THEN "Abort"
              ELSE "None")
        /\ lastCall'.ret \in {"Busy", "Abort"} =>
             /\ lastCall'.to = sState
             /\ UNCHANGED <<radioVars, IntransitHandles, IntransitPackets, intransit_mutex,
                            requests, lastCb>>]_vars

\* a beacon frame was rejected while an earlier data frame is outstanding
C11_Witness ==
    /\ lastCall.op = "transmit"
    /\ lastCall.type = "beacon"
    /\ lastCall.ret = "Abort"
    /\ lastCall.from = "Transmit"
    /\ sState = "Transmit"
    /\ requests # {}
    /\ LiveSlots # {}

\* the entries of scanLog with the given event
ScanLogOf(ev) == SelectSeq(scanLog, LAMBDA e : e.ev = ev)

\* a scan was accepted, its confirm has been delivered with the interface up
\* and the handler has returned; the scan call has returned too
C12_ScanOver ==
    /\ scanLog # << >>
    /\ scanLog[1].ev = "accept"
    /\ Len(ScanLogOf("confirm")) = 1
    /\ ScanLogOf("confirm")[1].id = 1
    /\ workerPc = "idle"
    /\ mainPc \notin {"ascan_flag", "escan_flag"}

\* C12 (as stated): once the confirm of an accepted scan has been handled (the
\* interface being up), whatever the interleaving of the two threads, the
\* scan's callback has been invoked exactly once with a null result, no scan is
\* in progress any more and the co-processor's channel is the selected channel
\* again.
C12_AcceptedScanCompletes ==
    C12_ScanOver =>
        /\ Len(ScanLogOf("null")) = 1
        /\ ScanLogOf("null")[1].fn = scanLog[1].fn
        /\ sActiveScanInProgress = 0
        /\ sEnergyScanInProgress = 0
        /\ phyCurrentChannel = sChannel

\* one of the two in-progress flags is set
C13_Flagged == sActiveScanInProgress # 0 \/ sEnergyScanInProgress # 0

\* C13: the two in-progress flags are never both set; the co-processor runs a
\* scan only while a flag is set or the call that requested it has not returned
\* yet; a scan call made while a flag is set returns Busy, sends no request and
\* changes neither the stored callbacks and contexts nor the channel mask; and
\* a request is sent only when the co-processor runs no scan.
C13_OneScanInFlight ==
    [][/\ ~(sActiveScanInProgress' # 0 /\ sEnergyScanInProgress' # 0)
       /\ scanRunning' # NoScan => (C13_Flagged' \/ mainPc' \in {"ascan_flag", "escan_flag"})
       /\ (nScans' # nScans /\ C13_Flagged) =>
            /\ lastCall'.op \in {"activescan", "energyscan"}
            /\ lastCall'.ret = "Busy"
            /\ mainPc' = "stack"
            /\ UNCHANGED <<sActiveScanInProgress, sEnergyScanInProgress, sEnergyScanMask,
                           sActiveScanCallback, sActiveScanContext, sEnergyScanCallback,
                           sEnergyScanContext, scanRunning, scanLog>>
       /\ (nScans' # nScans /\ scanRunning' # scanRunning) => scanRunning = NoScan]_vars

\* an energy-scan call was refused while the co-processor runs an active scan
C13_Witness ==
    /\ lastCall.op = "energyscan"
    /\ lastCall.ret = "Busy"
    /\ sActiveScanInProgress = 1
    /\ scanRunning.kind = "active"
    /\ nScans = 2

\* a step in which handleBeaconNotify invokes the active-scan callback
C14_BeaconReported ==
    /\ workerPc = "callback"
    /\ evt.type = "beacon"
    /\ workerPc' # "callback"

\* C14 (as stated): the active-scan callback is invoked with a result only
\* while an active scan is in progress, and the results of the beacons
\* notified during a scan are reported in arrival order before the scan's null
\* callback.
C14_ResultsOnlyDuringActiveScan ==
    [][C14_BeaconReported =>
         /\ sActiveScanInProgress # 0
         /\ sActiveScanCallback # "NULL"
         /\ ScanLogOf("null") = << >>
         /\ Len(ScanLogOf("result")') = Len(ScanLogOf("beacon"))
         /\ ScanLogOf("result")'[Len(ScanLogOf("beacon"))].id = evt.handle]_vars

\* a step in which handleScanConfirm handles the confirm of an energy scan
C15_EnergyConfirmHandled ==
    /\ workerPc = "callback"
    /\ evt.type = "scan_energy"
    /\ workerPc' # "callback"

\* C15 (as stated): handling the confirm of an energy scan with k results
\* invokes the energy-scan callback k times with a result, the i-th time with
\* the i-th RSSI of the list, and then once with NULL.
C15_OneCallbackPerResult ==
    [][C15_EnergyConfirmHandled =>
         LET list == ResultLists[evt.handle]
             k == Len(list)
             n == Len(scanLog)
         IN /\ workerPc' = "scan_set"
            /\ Len(scanLog') = n + k + 1
            /\ \A i \in 1..k :
                 /\ scanLog'[n + i].ev = "result"
                 /\ scanLog'[n + i].kind = "energy"
                 /\ scanLog'[n + i].id = list[i]
            /\ scanLog'[n + k + 1].ev = "null"]_vars

(* ---------------- C16 ---------------- *)
\* the coordinator requests among the requests of the last event
CoordRequests(reqs) == SelectSeq(reqs, LAMBDA r : r.prim \in {"MLME-START", "MLME-RESET"})
\* a step that handles one state-change event
SyncEvent == evtTick' # evtTick

\* C16: a state-change event issues MLME-START (current PAN id, current
\* channel, beacon order 15, superframe order 15, PAN coordinator true) exactly
\* when it carries the role flag and finds the role router or leader while the
\* node is not coordinator, MLME-RESET(0) exactly when it carries the role flag
\* and finds another role while the node is coordinator, and nothing else for
\* the coordinator role; the two requests strictly alternate, MLME-START first.
C16_CoordinatorFollowsRole ==
    [][SyncEvent =>
         LET e == stackEvt'
             sent == CoordRequests(macRequests')
             start == /\ "OT_NET_ROLE" \in e.flags
                      /\ e.role \in {"router", "leader"}
                      /\ sIsCoordinator = 0
             reset == /\ "OT_NET_ROLE" \in e.flags
                      /\ e.role \notin {"router", "leader"}
                      /\ sIsCoordinator # 0
         IN /\ sent = (IF start
                       THEN <<Req("MLME-START", "none", 0, e.pan, 0, ZeroAddr, 0, ZeroU32,
                                  sChannel, 0, 15, 15, 1)>>
                       ELSE IF reset
                       THEN <<Req("MLME-RESET", "none", 0, 0, 0, ZeroAddr, 0, ZeroU32,
                                  0, 0, 0, 0, 0)>>
                       ELSE << >>)
            /\ (start => lastCoord \in {"none", "RESET"} /\ lastCoord' = "START")
            /\ (reset => lastCoord = "START" /\ lastCoord' = "RESET")
            /\ (~start /\ ~reset => lastCoord' = lastCoord)]_vars

\* the node became coordinator, then left the router role and was reset: the
\* last event carried the role flag, found the role child and sent MLME-RESET
C16_Witness ==
    /\ lastCoord = "RESET"
    /\ sIsCoordinator = 0
    /\ stackEvt.role = "child"
    /\ CoordRequests(macRequests) # << >>

(* ---------------- C17 ---------------- *)
\* the requests of the last event that write attribute attr
WritesOf(reqs, attr) == SelectSeq(reqs, LAMBDA r : r.prim = "MLME-SET" /\ r.attr = attr)
\* the event rebuilds the tables: it carries one of the triggering flags
SyncTrigger(e) ==
    e.flags \cap {"OT_NET_KEY_SEQUENCE", "OT_THREAD_CHILD_ADDED", "OT_THREAD_CHILD_REMOVED",
                  "OT_NET_ROLE", "OT_THREAD_LINK_ACCEPT"} # {}
\* the neighbours of stack state e a non-child node registers: its valid
\* children by index, then its neighbour routers
C17_Neighbours(e) ==
    SelectSeq(e.children, LAMBDA c : c.mExtAddress # <<0, 0>>) \o e.routers
\* reqs starts with one descriptor write per device of devices, slots 0, 1, ..
\* in order, followed by the entry count, and writes no other descriptor or count
C17_Registers(reqs, devices, pan) ==
    LET n == Len(devices)
    IN /\ Len(reqs) > n
       /\ \A i \in 1..n :
            /\ reqs[i].prim = "MLME-SET"
            /\ reqs[i].attr = "macDeviceTable"
            /\ reqs[i].index = i - 1
            /\ reqs[i].pan = pan
            /\ reqs[i].short = devices[i].mRloc16
            /\ reqs[i].ext = <<devices[i].mExtAddress[2], devices[i].mExtAddress[1]>>
       /\ reqs[n + 1].prim = "MLME-SET"
       /\ reqs[n + 1].attr = "macDeviceTableEntries"
       /\ reqs[n + 1].num = n
       /\ Len(WritesOf(reqs, "macDeviceTable")) = n
       /\ Len(WritesOf(reqs, "macDeviceTableEntries")) = 1

\* C17: a triggering event in a non-child role with N valid children and M
\* neighbour routers, N + M <= 5, writes exactly N + M device descriptors, to
\* slots 0 .. N+M-1 in order, then the entry count N + M; in the child role
\* with a known parent it writes one descriptor, to slot 0, then the count 1.
C17_DeviceTableRebuilt ==
    [][SyncEvent /\ SyncTrigger(stackEvt') =>
         LET e == stackEvt'
         IN /\ (e.role # "child" /\ Len(C17_Neighbours(e)) <= 5
                  => C17_Registers(macRequests', C17_Neighbours(e), e.pan))
            /\ (e.role = "child" /\ e.parent # NoNeighbour
                  => C17_Registers(macRequests', <<e.parent>>, e.pan))]_vars

\* a router with four valid children, one of them behind an empty entry of
\* the child table, and one neighbour router has written slot 4
C17_Witness ==
    /\ stackEvt.role = "router"
    /\ SyncTrigger(stackEvt)
    /\ Len(C17_Neighbours(stackEvt)) = 5
    /\ Len(stackEvt.routers) = 1
    /\ stackEvt.children[3] = NoNeighbour
    /\ \E i \in 1..Len(macRequests) :
         macRequests[i].attr = "macDeviceTable" /\ macRequests[i].index = 4

(* ---------------- C18 ---------------- *)
\* the key sequence numbers s - 1, s, s + 1 (mod 2^32) that are not 0, where s
\* is the key sequence counter seq, or 2 if that is 0
C18_Generations(seq) ==
    LET s == IF seq = U32(0, 0) THEN U32(0, 2) ELSE seq
    IN SelectSeq(<<U32Dec(s), s, U32Add(s, 1)>>, LAMBDA q : q # U32(0, 0))

\* C18: a triggering event with key sequence counter s (set to 2 if it is 0)
\* writes, after the device table, one key entry for each of s - 1, s, s + 1
\* (mod 2^32) that is not 0, to consecutive slots from 0, with lookup byte 0
\* equal to (sequence & 0x7F) + 1, and then the key table entry count, which
\* is the number of keys written and at most 3.
C18_KeyTableRebuilt ==
    [][SyncEvent /\ SyncTrigger(stackEvt') =>
         LET gens == C18_Generations(stackEvt'.seq)
             n == Len(gens)
             reqs == macRequests'
             d == Len(WritesOf(reqs, "macDeviceTable")) + 1
         IN /\ n <= 3
            /\ Len(reqs) > d + n
            /\ \A i \in 1..n :
                 /\ reqs[d + i].prim = "MLME-SET"
                 /\ reqs[d + i].attr = "macKeyTable"
                 /\ reqs[d + i].index = i - 1
                 /\ reqs[d + i].key = gens[i]
                 /\ reqs[d + i].num = (gens[i].lo % 128) + 1
            /\ reqs[d + n + 1].prim = "MLME-SET"
            /\ reqs[d + n + 1].attr = "macKeyTableEntries"
            /\ reqs[d + n + 1].num = n
            /\ Len(WritesOf(reqs, "macKeyTable")) = n
            /\ Len(WritesOf(reqs, "macKeyTableEntries")) = 1
            /\ keySequenceCounter' # U32(0, 0)]_vars

\* the key sequence counter was 2^32 - 1: s + 1 wraps to 0 and two keys are
\* written, the second with lookup byte 128
C18_Witness ==
    /\ SyncTrigger(stackEvt)
    /\ stackEvt.seq = U32(65535, 65535)
    /\ \E i \in 1..Len(macRequests) :
         macRequests[i].attr = "macKeyTableEntries" /\ macRequests[i].num = 2
    /\ \E i \in 1..Len(macRequests) :
         /\ macRequests[i].attr = "macKeyTable"
         /\ macRequests[i].index = 1
         /\ macRequests[i].num = 128

(* ---------------- C19 ---------------- *)
\* the last activity query found its address in the device table
QueryFound == lastQuery.addr # <<0, 0>> /\ lastQuery.fc # -1
\* the last activity query was for an address the device table did not hold
QueryAbsent == lastQuery.addr # <<0, 0>> /\ lastQuery.fc = -1
\* the counters the cache has captured for the address of the last query
Captured ==
    {sDeviceCache[i].mTimeoutFrameCounter :
        i \in {j \in 1..DEVICE_TABLE_SIZE :
                  /\ sDeviceCache[j].isActive # 0
                  /\ sDeviceCache[j].mExtAddr = <<lastQuery.addr[2], lastQuery.addr[1]>>}}

\* C19: an activity query for an address that was queried before returns
\* active iff the frame counter the device table holds for the device differs
\* from the one captured at the previous query for the address (so a second
\* query with no change of the counter returns inactive); after a query the
\* captured counter is the current one; an address that is not in the device
\* table is reported inactive.
C19_ActiveIffCounterChanged ==
    /\ (QueryFound /\ lastQuery.prev # -1
          => lastQuery.ret = (IF lastQuery.fc # lastQuery.prev THEN 1 ELSE 0))
    /\ (QueryFound => Captured = {lastQuery.fc})
    /\ (QueryAbsent => lastQuery.ret = 0 /\ Captured = {})

\* the counter of a device went from 1 to 2 between two queries for it, and
\* the second reported it active
C19_Witness ==
    /\ QueryFound
    /\ lastQuery.prev = 1
    /\ lastQuery.fc = 2
    /\ lastQuery.ret = 1

(* ---------------- C20 ---------------- *)
\* the last activity query was the first for its address since the cache
\* entry of the address was inserted
FirstQuery == QueryFound /\ lastQuery.prev = -1

\* C20 (as stated): the first activity query for an address after its cache
\* entry was inserted returns inactive, whatever frame counter the device
\* table holds.
C20_FirstQueryInactive == FirstQuery => lastQuery.ret = 0

\* C20 (amended): a new cache entry captures counter 0, the value the device
\* table is written with, so the first activity query after the insertion
\* returns inactive iff the device table holds frame counter 0 for the device.
C20_FirstQueryComparesWithZero ==
    FirstQuery => lastQuery.ret = (IF lastQuery.fc # 0 THEN 1 ELSE 0)

\* a device whose counter had reached 2 was queried for the first time and
\* reported active
C20_Witness ==
    /\ FirstQuery
    /\ lastQuery.fc = 2
    /\ lastQuery.ret = 1

(* ---------------- C27 ---------------- *)
\* floor(log2(v)) for 1 <= v < 2^16
FloorLog2(v) == CHOOSE k \in 0..15 : 2 ^ k <= v /\ v < 2 ^ (k + 1)

\* C27: for every scan duration ms in 50..65535 the duration exponent is
\* min(floor(log2(floor(ms / 15))), 14); for ms < 50 it is 5 for an active
\* scan and 6 for an energy scan.
C27_DurationExponent ==
    ScanDuration.kind # "none" =>
        ScanDuration.exp =
            (IF aScanDuration >= 50
             THEN (IF FloorLog2(aScanDuration \div 15) < 14
                   THEN FloorLog2(aScanDuration \div 15) ELSE 14)
             ELSE IF ScanDuration.kind = "active" THEN 5 ELSE 6)

\* the longest duration: floor(65535 / 15) = 4369, exponent 12
C27_Witness ==
    /\ aScanDuration = 65535
    /\ ScanDuration = Duration("energy", 12)

(* ---------------- C28 ---------------- *)
\* the set calls whose one request, or whose two requests, answer
\* kThreadError_Failed when a request fails
FailedOnFailure ==
    {"otPlatRadioSetPanId", "otPlatRadioSetShortAddress", "otPlatRadioSetExtendedAddress",
     "otPlatRadioSetNetworkName", "otPlatRadioSetExtendedPanId"}

\* C28: every set call whose underlying set request fails returns failed:
\* set pan id, set short address, set extended address, set network name,
\* set extended pan id and set rx-on-when-idle.
C28_FailedSetReturnsFailed ==
    lastSet.failed => lastSet.ret = "Failed"

\* the part the code keeps: the five calls other than set rx-on-when-idle
C28_FiveCallsReturnFailed ==
    (lastSet.failed /\ lastSet.op \in FailedOnFailure) => lastSet.ret = "Failed"

\* a set-network-name call whose second request failed after an accepted
\* first one
C28_Witness ==
    /\ lastSet = SetCall("otPlatRadioSetNetworkName", TRUE, "Failed")
    /\ macPib["macBeaconPayload"].set
    /\ ~macPib["macBeaconPayloadLength"].set

(* ---------------- C29 ---------------- *)
\* the step of handleDataConfirm that calls otPlatRadioTransmitDone
TransmitDoneStep == workerPc = "callback" /\ evt.type = "conf" /\ workerPc' = "rm"

\* C29: transmit-done for an MCPS-DATA confirm carries ack-received false,
\* and error none for status success (whatever earlier confirms reported),
\* channel-access-failure for MAC channel-access-failure, no-ack for MAC
\* no-ack, transaction-overflow and transaction-expired, and an error other
\* than none for every other status.
C29_ConfirmErrors ==
    [][TransmitDoneStep =>
         /\ lastCb'.cb = "tx"
         /\ lastCb'.ack = FALSE
         /\ (evt.status = "MAC_SUCCESS" => lastCb'.err = "None")
         /\ (evt.status = "MAC_CHANNEL_ACCESS_FAILURE" => lastCb'.err = "ChannelAccessFailure")
         /\ (evt.status \in {"MAC_NO_ACK", "MAC_TRANSACTION_OVERFLOW",
                              "MAC_TRANSACTION_EXPIRED"} => lastCb'.err = "NoAck")
         /\ (evt.status # "MAC_SUCCESS" => lastCb'.err # "None")]_vars

\* the confirm of the second transmit reported: an expired transaction
C29_Witness ==
    /\ workerPc = "rm"
    /\ evt.type = "conf"
    /\ evt.status = "MAC_TRANSACTION_EXPIRED"
    /\ nTx = MaxConfirmTransmits
    /\ lastCb.cb = "tx"
    /\ lastCb.err = "NoAck"
    /\ sTransmitError = "None"

(* ---------------- C30 ---------------- *)
\* a step in which this layer sends an MLME-RESET
ResetStep ==
    /\ (evtTick' # evtTick \/ macRequests' # macRequests)
    /\ \E i \in 1..Len(macRequests') : macRequests'[i].prim = "MLME-RESET"

\* C30: after any MAC reset issued by this layer (at stop, or the
\* MLME-RESET(0) on leaving the coordinator role) the in-transit table holds
\* no live record.
C30_ResetForgetsHandles ==
    [][ResetStep => LiveSlots' = {}]_vars

\* what the resets do to the table: nothing
C30_ResetKeepsTable ==
    [][ResetStep => IntransitHandles' = IntransitHandles]_vars

(* ---------------- C21 ---------------- *)
\* the PDU handed to otPlatRadioReceiveDone last
DecodedPdu == Bytes(sReceivePsdu, 0, lastRx.mLength)
\* the last indication decoded is the one that corresponds to the last request
RoundTrip ==
    /\ lastTx # NoTx
    /\ lastRx.delivered
    /\ lastRx.ind = CorrespondingInd(lastTx)
\* the lengths of the parts of the frame that was encoded
AddressingLength(f) == Len(HeaderOf(f)) - MAC_BASEHEADERLENGTH - Len(AuxHeaderOf(f))
KeyIdLength(f) == Len(AuxHeaderOf(f)) - 5
\* the decoded PDU has the frame control word, addressing fields, security
\* control, key identifier, payload and length of the frame that was encoded
SameFrame(f, p, q) ==
    /\ Len(q) = Len(p)
    /\ GETLE16(q, 0) = GETLE16(p, 0)
    /\ Bytes(q, MAC_BASEHEADERLENGTH, AddressingLength(f))
       = Bytes(p, MAC_BASEHEADERLENGTH, AddressingLength(f))
    /\ f.sec.SecurityLevel # 0 =>
         LET ash == MAC_BASEHEADERLENGTH + AddressingLength(f)
         IN /\ q[ash + 1] = p[ash + 1]
            /\ Bytes(q, ash + 5, KeyIdLength(f)) = Bytes(p, ash + 5, KeyIdLength(f))
    /\ Bytes(q, Len(HeaderOf(f)), Len(f.payload)) = f.payload

\* C21: decoding the indication that corresponds to the request encoded from
\* a well-formed data frame p yields a PDU with the frame control word,
\* addresses, PAN ids, security spec, payload and length of p.
C21_RoundTrip ==
    RoundTrip => SameFrame(lastTx.fields, lastTx.frame.mPsdu, DecodedPdu)

\* what the code keeps: frames that request no ack and whose key id mode
\* has a key index come back as they were
C21_RoundTripWithoutAck ==
    (/\ RoundTrip
     /\ ~lastTx.fields.ack
     /\ (lastTx.fields.sec.SecurityLevel # 0 => lastTx.fields.sec.KeyIdMode # 0))
    => SameFrame(lastTx.fields, lastTx.frame.mPsdu, DecodedPdu)

(* ---------------- C22 ---------------- *)
\* the request carries the addressing modes, destination, TxOptions and
\* security spec of the frame f, and as MSDU the bytes between the header and
\* the footer of the PDU pkt
RequestOf(f, pkt, req) ==
    /\ req.SrcAddrMode = f.src.AddressMode
    /\ req.DstAddrMode = f.dst.AddressMode
    /\ f.dst.AddressMode # 0 =>
         /\ req.DstPANId = GETLE16(f.dst.PANId, 0)
         /\ req.DstAddress = f.dst.Address
    /\ (req.TxOptions % 2 = 1) <=> f.ack
    /\ ((req.TxOptions \div 4) % 2 = 1) <=> ~pkt.mDirectTransmission
    /\ req.Security.SecurityLevel = f.sec.SecurityLevel
    /\ req.Security.KeyIdMode = f.sec.KeyIdMode
    /\ SubSeq(req.Security.KeySource, 1, KeySourceLength(f.sec.KeyIdMode))
       = SubSeq(f.sec.KeySource, 1, KeySourceLength(f.sec.KeyIdMode))
    /\ f.sec.KeyIdMode # 0 => req.Security.KeyIndex = f.sec.KeyIndex
    /\ req.Msdu = Bytes(pkt.mPsdu, Len(HeaderOf(f)),
                        pkt.mLength - (MicLength(f.sec.SecurityLevel) + 2) - Len(HeaderOf(f)))
    /\ req.MsduLength = Len(req.Msdu)
    /\ Len(HeaderOf(f)) + req.MsduLength + MicLength(f.sec.SecurityLevel) + 2 = pkt.mLength

\* C22: for every accepted data frame the MCPS-DATA request carries the
\* addressing modes, destination PAN id and address parsed from the PDU,
\* TxOptions bit 0 iff ack-request and bit 2 iff indirect, the security spec
\* parsed from the auxiliary security header, and as MSDU exactly the PDU
\* bytes from the end of the header up to length - footer (footer = MIC length
\* 0, 4, 8, 16, 0, 4, 8, 16 for levels 0..7, plus 2), so that header +
\* MsduLength + footer = PDU length, also for a 127-byte frame.
C22_RequestFields ==
    lastTx # NoTx => RequestOf(lastTx.fields, lastTx.frame, lastTx.req)

\* what the code keeps: the frames whose security header holds a key index,
\* and the unsecured frames
C22_RequestFieldsKeyed ==
    (/\ lastTx # NoTx
     /\ (lastTx.fields.sec.SecurityLevel # 0 => lastTx.fields.sec.KeyIdMode # 0))
    => RequestOf(lastTx.fields, lastTx.frame, lastTx.req)

(* ---------------- C23 ---------------- *)
\* the indication decoded last has short or extended addressing modes and
\* its frame was handed to otPlatRadioReceiveDone
DecodedAddressed ==
    /\ lastRx.delivered
    /\ lastRx.ind.Src.AddressMode \in {MAC_MODE_SHORT_ADDR, MAC_MODE_LONG_ADDR}
    /\ lastRx.ind.Dst.AddressMode \in {MAC_MODE_SHORT_ADDR, MAC_MODE_LONG_ADDR}

C23_WitnessCompressed ==
    /\ DecodedAddressed
    /\ lastRx.ind.Src.PANId = lastRx.ind.Dst.PANId
    /\ lastRx.ind.Security.KeyIdMode = 2
    /\ sReceivePsdu[IEEE802154_MAX_LENGTH - 18] = 72

(* ---------------- C24 ---------------- *)
\* the security control byte of the frame encoded last
SecurityControlByte ==
    lastTx.frame.mPsdu[Len(HeaderOf(lastTx.fields)) - Len(AuxHeaderOf(lastTx.fields)) + 1]
\* the frame encoded last is secured
SecuredTx == lastTx # NoTx /\ lastTx.fields.sec.SecurityLevel # 0

\* C24 as stated: for a secured data frame with security control byte 0x05
\* (level 5, key id mode 1) the encoder uses footer length 10 (8-byte MIC + 2
\* FCS): MsduLength = total - 10 - header, security spec level 5, key id mode
\* 1, key index from the frame.  The byte 0x05 is read as a byte, the words
\* in brackets as the fields of the byte 0x0D; either frame is a case.
C24_Level5Footer10 ==
    (SecuredTx /\ SecurityControlByte \in {5, 13}) =>
        /\ lastTx.req.MsduLength = lastTx.frame.mLength - 10 - Len(HeaderOf(lastTx.fields))
        /\ lastTx.req.Security.SecurityLevel = 5
        /\ lastTx.req.Security.KeyIdMode = 1
        /\ lastTx.req.Security.KeyIndex = lastTx.fields.sec.KeyIndex

\* C24, amended: for a secured data frame with security control byte 0x0D
\* (level 5, key id mode 1) the encoder uses footer length 6 (the 4-byte MIC
\* of level 5 + 2 FCS): MsduLength = total - 6 - header, security spec level
\* 5, key id mode 1, key index from the frame.
C24_Level5Footer6 ==
    (SecuredTx /\ SecurityControlByte = 13) =>
        /\ lastTx.req.MsduLength = lastTx.frame.mLength - 6 - Len(HeaderOf(lastTx.fields))
        /\ lastTx.req.Msdu = lastTx.fields.payload
        /\ lastTx.req.Security.SecurityLevel = 5
        /\ lastTx.req.Security.KeyIdMode = 1
        /\ lastTx.req.Security.KeyIndex = lastTx.fields.sec.KeyIndex

\* the frame with frame control 0x8869, key index 3 and payload DE AD, encoded
C24_Witness ==
    /\ SecuredTx
    /\ SecurityControlByte = 13
    /\ GETLE16(lastTx.frame.mPsdu, 0) = 34921
    /\ lastTx.frame.mLength = 23
    /\ lastTx.req.Msdu = <<222, 173>>
    /\ lastTx.req.Security.KeyIndex = 3

(* ---------------- C25 ---------------- *)
\* C25: an MCPS-DATA indication whose source or destination addressing mode
\* is the reserved mode (1) is dropped: it is never delivered to receive-done.
C25_ReservedModeDropped ==
    (lastRx.ind.Src.AddressMode = 1 \/ lastRx.ind.Dst.AddressMode = 1)
    => ~lastRx.delivered

(* ---------------- C26 ---------------- *)
\* C26: byte [2] of every PDU delivered to receive-done equals the sequence
\* number carried by the indication, whatever was decoded into the buffer
\* before.
C26_SequenceNumberPreserved ==
    lastRx.delivered => sReceivePsdu[IEEE802154_DSN_OFFSET + 1] = lastRx.ind.DSN

\* what the decoder does to byte [2]: it leaves it as PlatformRadioInit found it
C26_SequenceNumberUntouched ==
    sReceivePsdu[IEEE802154_DSN_OFFSET + 1] = 0

(* ---------------- C40 ---------------- *)
\* the null callbacks of scanLog that conclude an energy scan
C40_EnergyNulls ==
    SelectSeq(scanLog, LAMBDA e : e.ev = "null" /\ e.kind = "energy")

\* C40 (as stated): the null completion callback of an energy scan is invoked
\* with the callback context that was supplied to that otPlatRadioEnergyScan
\* call, whatever context an earlier active scan supplied.
C40_EnergyNullContext ==
    (scanLog # << >> /\ scanLog[1].ev = "accept" /\ scanLog[1].kind = "energy")
    => \A i \in 1..Len(C40_EnergyNulls) : C40_EnergyNulls[i].ctx = scanLog[1].ctx

\* what handleScanConfirm passes: the context of the last accepted active scan
C40_EnergyNullActiveContext ==
    [][Len(C40_EnergyNulls') > Len(C40_EnergyNulls)
       => C40_EnergyNulls'[Len(C40_EnergyNulls')].ctx = sActiveScanContext]_vars

(* ---------------- C36 ---------------- *)
\* C36 (as stated): for every energy-scan channel mask and every result-list
\* size, the worker's handling of the scan confirm terminates and passes
\* barrier_worker_endWork: the handler is never stuck in its loop over the
\* results while the main thread waits in the barrier.
C36_EnergyConfirmTerminates ==
    ~(workerPc = "hung" /\ evt.type = "scan_energy")

\* where the handler stays for ever: in the while loop, at the first result
\* for which the stored mask has no bit left at or above the current channel,
\* the barrier still held and the energy scan still in progress
C36_HangsOnEmptyMask ==
    workerPc = "hung" =>
        /\ evt.type = "scan_energy"
        /\ sEnergyScanMask = {}
        /\ Len(ResultLists[evt.handle]) > 0
        /\ sEnergyScanInProgress = 1
        /\ mbarrier_waiting = "GREENLIGHT"

(* ---------------- C38 ---------------- *)
\* the last accepted scan has completed (its null callback was invoked and the
\* handler has returned) and both threads are quiescent: the worker handles no
\* event, the main thread is in no platform call and not in the barrier
C38_ScanCompletedQuiescent ==
    /\ scanLog # << >>
    /\ scanLog[1].ev = "accept"
    /\ ScanLogOf("null") # << >>
    /\ scanRunning = NoScan
    /\ workerPc = "idle"
    /\ mainPc \in {"stack", "select"}

\* C38 (as stated): once a scan has completed and both threads are quiescent,
\* the channel programmed in the co-processor equals the cached selected
\* channel, for every interleaving of the worker's channel restore with a
\* channel change made by the main thread.
C38_ChannelRestored ==
    C38_ScanCompletedQuiescent => phyCurrentChannel = sChannel

\* the same, for the behaviours in which no setChannel call is in progress
\* when the worker restores the channel
C38_RestoredOutsideSetChannel ==
    [][(workerPc = "scan_set" /\ workerPc' = "idle" /\ mainPc # "set_channel")
       => phyCurrentChannel' = sChannel']_vars

(* ---------------- C31 ---------------- *)
\* a step of the worker thread (the main thread never moves workerPc)
C31_WorkerStep == workerPc' # workerPc

\* the worker holds the barrier: it has been greenlit and has not ended its work
C31_HoldsBarrier == barrier_mutex = "worker" /\ mbarrier_waiting = "GREENLIGHT"

\* C31 (as stated): the worker thread writes the radio state only while it
\* holds the barrier, and the only state changes it performs are between
\* Receive and Transmit: a worker event never moves the radio out of Disabled
\* or Sleep.
C31_WorkerStateChanges ==
    [][(C31_WorkerStep /\ sState' # sState)
       => /\ C31_HoldsBarrier
          /\ {sState, sState'} = {"Receive", "Transmit"}]_vars

\* what the handlers do: under the barrier they set the state to Receive,
\* whatever it was
C31_WorkerSetsReceive ==
    [][(C31_WorkerStep /\ sState' # sState)
       => /\ C31_HoldsBarrier
          /\ sState' = "Receive"]_vars

(* ---------------- C33 ---------------- *)
\* a step of the main thread alone, a step of the worker thread alone
C33_MainStep == mainPc' # mainPc /\ workerPc' = workerPc
C33_WorkerOnlyStep == workerPc' # workerPc /\ mainPc' = mainPc

\* C33: the barrier state only ever changes along the cycle NOT_WAITING ->
\* WAITING -> GREENLIGHT -> DONE -> NOT_WAITING; the worker performs
\* NOT_WAITING -> WAITING and GREENLIGHT -> DONE, the main thread performs
\* WAITING -> GREENLIGHT and DONE -> NOT_WAITING.
C33_BarrierCycle ==
    [][mbarrier_waiting' # mbarrier_waiting =>
         \/ /\ mbarrier_waiting = "NOT_WAITING" /\ mbarrier_waiting' = "WAITING"
            /\ C33_WorkerOnlyStep
         \/ /\ mbarrier_waiting = "WAITING" /\ mbarrier_waiting' = "GREENLIGHT"
            /\ C33_MainStep
         \/ /\ mbarrier_waiting = "GREENLIGHT" /\ mbarrier_waiting' = "DONE"
            /\ C33_WorkerOnlyStep
         \/ /\ mbarrier_waiting = "DONE" /\ mbarrier_waiting' = "NOT_WAITING"
            /\ C33_MainStep]_vars

\* the barrier has gone round the cycle once: a worker passed and the main
\* thread has left barrier_main_letWorkerWork
C33_Witness ==
    /\ passages = 1
    /\ mbarrier_waiting = "NOT_WAITING"
    /\ barrier_mutex = "none"
    /\ mainPc = "stack"
    /\ workerPc = "idle"

(* ---------------- C32 ---------------- *)
\* the MCPS-DATA request r has a record: some slot holds its handle and the
\* context of its submission
C32_HasRecord(handles, packets, r) ==
    \E i \in Slots : handles[i] = r.handle /\ packets[i] = r.ctx

\* C32 (as stated): every MCPS-DATA request submitted to the co-processor
\* carries a non-zero handle for which an in-transit record has been stored,
\* for every sequence of transmits and confirms, including after the handle
\* counter wraps and when the table is full.
C32_RequestHasRecord ==
    [][\A r \in requests' \ requests :
         /\ r.handle # 0
         /\ C32_HasRecord(IntransitHandles', IntransitPackets', r)]_vars

\* the same for the requests submitted while the table has a free slot
C32_RequestHasRecordUnlessFull ==
    [][intransit_putSlot(IntransitHandles) # 0 =>
         \A r \in requests' \ requests :
           /\ r.handle # 0
           /\ C32_HasRecord(IntransitHandles', IntransitPackets', r)]_vars

(* ---------------- C35 ---------------- *)
\* C35 (as stated): every in-transit table operation releases intransit_mutex
\* on every return path, including the put that fails because the table is
\* full, so that no later in-transit operation on either thread blocks for
\* ever on that mutex: between two calls the mutex is free, no platform call
\* is stuck in pthread_mutex_lock and no handler is stuck in intransit_getFrame.
C35_MutexReleased ==
    /\ mainPc = "stack" => intransit_mutex = "none"
    /\ mainPc # "blocked"
    /\ ~(workerPc = "callback" /\ evt.type = "conf" /\ intransit_mutex # "none")

\* the one path that keeps the mutex: the put into a full table
C35_KeptOnlyByFullPut ==
    [][(intransit_mutex = "none" /\ intransit_mutex' # "none")
       => /\ intransit_putSlot(IntransitHandles) = 0
          /\ requests' # requests
          /\ intransit_mutex' = "main"]_vars

(* ---------------- C39 ---------------- *)
\* no transmission is outstanding: the co-processor holds no MCPS-DATA
\* request, no record waits for a confirm (a record is removed only by the
\* handler that reports transmit-done), and both threads are between calls
C39_NoneOutstanding ==
    /\ requests = {}
    /\ LiveSlots = {}
    /\ mainPc = "stack"
    /\ workerPc = "idle"

\* C39 (as stated): whenever no transmission is outstanding (transmit-done
\* delivered for every accepted transmit, whether a data frame completed by a
\* confirm or a data-request command completed by the synchronous poll), the
\* radio state is not Transmit.
C39_IdleNotTransmit ==
    C39_NoneOutstanding => sState # "Transmit"

\* the same where only data frames are transmitted: the confirm handler
\* leaves the Receive state
C39_IdleNotTransmitData ==
    (regime = "table" /\ C39_NoneOutstanding) => sState # "Transmit"

(* ---------------- C34 ---------------- *)
\* the descriptors of device-table slots 0..sCurDeviceTableSize-1, the
\* extended addresses they hold, and the slots of the live cache entries
C34_Table == SubSeq(macDeviceTable, 1, sCurDeviceTableSize)
C34_TableAddrs == {C34_Table[k].ext : k \in 1..Len(C34_Table)}
C34_Live(cache) == {i \in 1..DEVICE_TABLE_SIZE : cache[i].isActive # 0}

\* the cache as deviceCache_cacheDevices leaves it when called now
C34_Refreshed == deviceCache_cacheDevices(sDeviceCache, C34_Table)

\* C34: after every device-cache refresh no cache entry is in the staged
\* state, and the set of extended addresses of the live cache entries equals
\* the set read from device-table slots 0..size-1: an entry for a device no
\* longer in the table is discarded and a retained entry keeps its previously
\* captured counter (mTimeoutFrameCounter).
C34_RefreshMatchesTable ==
    /\ \A i \in 1..DEVICE_TABLE_SIZE : C34_Refreshed[i].isActive \in {0, 1}
    /\ {C34_Refreshed[i].mExtAddr : i \in C34_Live(C34_Refreshed)} = C34_TableAddrs
    /\ \A i \in C34_Live(sDeviceCache) :
         IF sDeviceCache[i].mExtAddr \in C34_TableAddrs
         THEN /\ C34_Refreshed[i].isActive = 1
              /\ C34_Refreshed[i].mExtAddr = sDeviceCache[i].mExtAddr
              /\ C34_Refreshed[i].mTimeoutFrameCounter = sDeviceCache[i].mTimeoutFrameCounter
         ELSE C34_Refreshed[i] = EmptyCacheEntry

\* a refresh is due that discards an entry (its device has left the table)
\* and retains another that has captured a non-zero counter
C34_Witness ==
    /\ lastQuery # NoQuery
    /\ \E i \in C34_Live(sDeviceCache) : sDeviceCache[i].mExtAddr \notin C34_TableAddrs
    /\ \E i \in C34_Live(sDeviceCache) :
         /\ sDeviceCache[i].mExtAddr \in C34_TableAddrs
         /\ sDeviceCache[i].mTimeoutFrameCounter # 0

(* ---------------- C37 ---------------- *)
\* a worker event has entered barrier_worker_waitForMain and its handler has
\* not returned
C37_InBarrier == workerPc \in {"bar_wait", "bar_green", "callback", "rm", "signal"}

\* C37 (as stated): provided the main loop keeps iterating, every worker event
\* that has entered barrier_worker_waitForMain is eventually greenlit and
\* completes (its handler returns): the main loop does not stay in select()
\* while the barrier state is WAITING and neither thread deadlocks on
\* barrier_mutex or receiveFrame_mutex.
C37_WorkerEventCompletes ==
    (workerPc = "bar_wait") ~> (workerPc = "idle")

\* every worker event that has entered barrier_worker_waitForMain is
\* eventually greenlit and passes barrier_worker_endWork
C37_WorkerEventGreenlit ==
    (workerPc = "bar_wait") ~> (workerPc \in {"rm", "signal"})

\* the event completes when the worker has not left receiveFrame_mutex locked
C37_CompletesUnlessSlotLocked ==
    (workerPc = "bar_wait" /\ receiveFrame_mutex = "none") ~> (workerPc = "idle")

====
